---- MODULE Spec2Model ----
(***************************************************************************)
(* Model of the aobot gateway core.                                        *)
(*                                                                         *)
(* Part 1: GatewaySessionManager (crates/aobot-gateway/src/                *)
(* session_manager.rs) together with the session rows of AoBotStorage      *)
(* (crates/aobot-storage/src/lib.rs).  Every caller of the manager is a    *)
(* process that performs one call; a call advances from one await point    *)
(* of the Rust code to the next, so that the interleavings of concurrent   *)
(* calls on the tokio runtime are the behaviours of the model.             *)
(*                                                                         *)
(* Part 2: ChannelManager (crates/aobot-gateway/src/channel.rs): the       *)
(* registry of channel plugins and the routing loop, whose tasks are the   *)
(* callers of the session manager.                                         *)
(*                                                                         *)
(* Part 3: the lifecycle of the channel plugins: ExternalChannelPlugin     *)
(* (crates/aobot-gateway/src/external_channel.rs), TelegramChannel and     *)
(* DiscordChannel.                                                         *)
(***************************************************************************)
EXTENDS Integers, Sequences, FiniteSets, TLC

\* ---------------------------------------------------------------- bounds
NumProcs == 3
NumCallers == 2
MaxStoredCount == 1

Procs == 1..NumProcs
Keys == {"A", "B"}
Sids == 1..NumProcs

\* ------------------------------------------------- error message strings
\* A string is the sequence of its characters, so that str::contains is
\* computed and not assumed.
E_TooLong == <<"t","o","o"," ","l","o","n","g">>
E_Context == <<"c","o","n","t","e","x","t">>
E_Token == <<"t","o","k","e","n">>

Msg_PromptTooLong == <<"p","r","o","m","p","t"," ","t","o","o"," ","l","o","n","g">>
Msg_ContextLen == <<"c","o","n","t","e","x","t","_","l","e","n","g","t","h">>
Msg_MaxTokens == <<"m","a","x"," ","t","o","k","e","n","s">>
Msg_Timeout == <<"t","i","m","e","o","u","t">>

ErrMsgs == {Msg_PromptTooLong, Msg_ContextLen, Msg_MaxTokens, Msg_Timeout}

Contains(s, sub) ==
    \E i \in 1..(Len(s) - Len(sub) + 1) : SubSeq(s, i, i + Len(sub) - 1) = sub

IsContextOverflowNoToken(e) == Contains(e, E_TooLong) \/ Contains(e, E_Context)

IsContextOverflow(e) ==
    Contains(e, E_TooLong) \/ Contains(e, E_Context) \/ Contains(e, E_Token)

\* ------------------------------------------------------------------ state
VARIABLES
    sessions,             \* GatewaySessionManager.sessions: key -> session (0 = no entry)
    nextSid,              \* the next ManagedSession to be allocated
    mutex,                \* per session: the call that holds Arc<Mutex<ManagedSession>> (0 = free)
    messages,             \* per session: AgentSession::messages()
    subscribers,          \* per session: the callbacks given to AgentSession::subscribe
    pi_session_id_saved,  \* per session: ManagedSession.pi_session_id_saved
    readers,              \* the calls that hold a read guard of sessions
    storage,              \* GatewaySessionManager.storage is Some
    rows,                 \* gateway_sessions table: key -> row
    pc,                   \* per call: the await point it is suspended at
    op,                   \* per call: the operation
    key,                  \* per call: session_key
    session_arc,          \* per call: the session the call works on
    active,               \* per call: the AtomicBool of its streaming subscriber
    response_text,        \* per call: the String behind response_text / text_collector
    events,               \* per call: what was sent on its event_tx
    prompt_result,        \* per call: the error of the first prompt, <<>> if none
    todo,                 \* per call: keys list_sessions still has to visit
    calls,                \* per call: calls made to the agent session and to storage, in order
    count0,               \* per call: message_count of its key read before the call
    result                \* per call: the returned value

VARIABLES
    inbound,              \* ChannelManager.inbound_rx: the InboundMessages not yet received
    task,                 \* per routing task: the InboundMessage it was spawned with
    task_pc,              \* per routing task: the await point it is suspended at
    typing,               \* per routing task: its typing loop and CancellationToken
    outbox,               \* the OutboundMessages given to ChannelManager::send_message
    channels,             \* ChannelManager.channels: channel_id -> plugin (0 = no entry)
    plugin,               \* per plugin: the state behind its Mutex
    written,              \* per plugin: the requests written to the stdin of its subprocess
    reg,                  \* the last register or unregister call: what it found and left
    callee,               \* per call: the plugin it is a call of (0 = none)
    rpc_id,               \* per call: the id of the request send_rpc waits for
    plugin0,              \* per call: the state of its plugin before the call
    stdout,               \* per plugin: the lines of its subprocess the reader has not read
    reader,               \* per plugin: the stdout reader task
    handled,              \* per plugin: the lines the reader has read since Init and what it did
    slot                  \* per call: the oneshot receiver send_rpc waits on

VARIABLES
    split,                \* the split_message call of a channel's send: arguments and chunks
    poll,                  \* the polling task of a Telegram channel, its token and its queue
    tools,                 \* the tool policy of an agent and the tools of a session created for it
    run,                   \* the run of the gateway process and the sessions its predecessor ended with
    stream,                \* per routing task on the streaming path: the task and its send_streaming task
    ops                   \* the gateway-ops channel, the op the loop is handling and the tool calls of the prompts

routeVars == <<inbound, task, task_pc, typing, outbox>>
plugVars == <<channels, plugin, written, reg, callee, rpc_id, plugin0>>
ioVars == <<stdout, reader, handled, slot>>
chanVars == <<routeVars, plugVars, ioVars, split, poll, tools, run, stream, ops>>

vars == <<sessions, nextSid, mutex, messages, subscribers, pi_session_id_saved,
          readers, storage, rows, pc, op, key, session_arc, active,
          response_text, events, prompt_result, todo, calls, count0, result, chanVars>>

sessVars == <<sessions, nextSid, mutex, messages, subscribers, pi_session_id_saved>>
callVars == <<active, response_text, events, prompt_result, todo>>

\* ------------------------------------------------------------ storage rows
NoRow ==
    [present |-> FALSE, message_count |-> 0, is_active |-> FALSE, pi_session_id |-> 0,
     created_at |-> "none"]

\* What the table may hold for a key when the manager is constructed: no
\* row, or the row of a session of an earlier run, active or soft-deleted.
StoredRows ==
    {NoRow} \cup
    {[present |-> TRUE, message_count |-> MaxStoredCount, is_active |-> a,
      pi_session_id |-> 0, created_at |-> "earlier_run"] : a \in BOOLEAN}

\* The pi_session_id of a session of an earlier run and the history its JSONL
\* file holds.
PastSid == NumProcs + 1
PastMessages == <<[role |-> "user", by |-> 0], [role |-> "assistant", by |-> 0]>>

\* What the table may hold for a key after a restart: as StoredRows, and the
\* row may carry the pi_session_id captured in the earlier run.
RestartRows ==
    {NoRow} \cup
    {[present |-> TRUE, message_count |-> MaxStoredCount, is_active |-> a,
      pi_session_id |-> i, created_at |-> "earlier_run"] : a \in BOOLEAN, i \in {0, PastSid}}

\* INSERT ... ON CONFLICT(session_key) DO UPDATE of a fresh SessionMetadata
\* (message_count 0, is_active true, pi_session_id None, created_at now):
\* created_at is not in the DO UPDATE list and pi_session_id is COALESCEd.
save_session(row) ==
    [present |-> TRUE, message_count |-> 0, is_active |-> TRUE,
     pi_session_id |-> row.pi_session_id,
     created_at |-> IF row.present THEN row.created_at ELSE "this_run"]

update_session_activity(row) ==
    IF row.present THEN [row EXCEPT !.message_count = @ + 1] ELSE row

save_pi_session_id(row, id) ==
    IF row.present THEN [row EXCEPT !.pi_session_id = id] ELSE row

storage_delete_session(row) ==
    IF row.present THEN [row EXCEPT !.is_active = FALSE] ELSE row

\* ---------------------------------------------------------------- results
NoResult == [done |-> FALSE, ok |-> FALSE, err |-> <<>>, value |-> <<>>]
Ok(v) == [done |-> TRUE, ok |-> TRUE, err |-> <<>>, value |-> v]
Err(e) == [done |-> TRUE, ok |-> FALSE, err |-> e, value |-> <<>>]

\* A manager right after construction: no session, no call in progress.
InitManager ==
    /\ sessions = [k \in Keys |-> 0]
    /\ nextSid = 1
    /\ mutex = [s \in Sids |-> 0]
    /\ messages = [s \in Sids |-> <<>>]
    /\ subscribers = [s \in Sids |-> <<>>]
    /\ pi_session_id_saved = [s \in Sids |-> FALSE]
    /\ readers = {}
    /\ pc = [p \in Procs |-> "idle"]
    /\ op = [p \in Procs |-> "none"]
    /\ key = [p \in Procs |-> "A"]
    /\ session_arc = [p \in Procs |-> 0]
    /\ active = [p \in Procs |-> FALSE]
    /\ response_text = [p \in Procs |-> <<>>]
    /\ events = [p \in Procs |-> <<>>]
    /\ prompt_result = [p \in Procs |-> <<>>]
    /\ todo = [p \in Procs |-> <<>>]
    /\ calls = [p \in Procs |-> <<>>]
    /\ count0 = [p \in Procs |-> 0]
    /\ result = [p \in Procs |-> NoResult]

\* ------------------------------------------------ channels and messages
NumPlugins == 3
MaxLines == 2
MaxText == 6
MaxMaxLen == 4
MaxBatch == 2
MaxRequests == 3
QueueCap == 1
MaxList == 2
MaxExtra == 1

Plugins == 1..NumPlugins
ChannelIds == {"x", "y"}

\* The plugins that exist: an ExternalChannelPlugin and a DiscordChannel
\* made with the same channel id, and a TelegramChannel with another one.
PluginKinds == <<"external", "telegram", "discord">>
channel_type(pl) == PluginKinds[((pl - 1) % 3) + 1]
channel_id(pl) == IF pl = 2 THEN "y" ELSE "x"

\* No plugin of the repository overrides the default of the trait with true.
supports_streaming(pl) == FALSE

\* ChannelStatus
Stopped == [kind |-> "Stopped", message |-> ""]
Starting == [kind |-> "Starting", message |-> ""]
Running == [kind |-> "Running", message |-> ""]
Error(m) == [kind |-> "Error", message |-> m]

\* A plugin after new(): Stopped, no subprocess or listener, next_id 1, no
\* pending request.
\* started: a start() has returned Ok and no stop() has returned since.
NewPlugin ==
    [status |-> Stopped, process |-> FALSE, next_id |-> 1, pending |-> {},
     started |-> FALSE]

NoMsg == [channel_id |-> "", sender_id |-> "", text |-> "", attachments |-> 0,
          command |-> ""]
NoChannels == [c \in ChannelIds |-> 0]
NoReg ==
    [op |-> "none", id |-> "", by |-> 0, before |-> NoChannels, after |-> NoChannels,
     prior_running |-> FALSE, undoes |-> FALSE, orig |-> NoChannels]

\* An external plugin that start() has made Running, and one that was
\* started and stopped again.
RunningPlugin ==
    [status |-> Running, process |-> TRUE, next_id |-> 3, pending |-> {}, started |-> TRUE]
StoppedPlugin ==
    [status |-> Stopped, process |-> FALSE, next_id |-> 5, pending |-> {}, started |-> FALSE]

\* No line of a subprocess yet, no receiver; a plugin that has a subprocess
\* has the reader task that start() spawned with it.
InitIo ==
    /\ stdout = [pl \in Plugins |-> <<>>]
    /\ reader = [pl \in Plugins |->
          IF channel_type(pl) # "external" THEN "none"
          ELSE IF plugin[pl].process THEN "running"
          ELSE IF plugin[pl].next_id > 1 THEN "aborted"
          ELSE "none"]
    /\ handled = [pl \in Plugins |-> <<>>]
    /\ slot = [p \in Procs |-> "none"]

\* A ChannelManager after new() and the plugins after their new().
\* ------------------------------------------------------- split_message
\* A text is the sequence of its bytes; the texts are ASCII.
Backtick == "backtick"
Chars == {"a", " ", "\n", Backtick}
Fence == <<Backtick, Backtick, Backtick>>
Texts == UNION {[1..n -> Chars] : n \in 0..MaxText}

\* str::rfind: the byte index (from 0) of the last match, -1 for None.
Max(S) == CHOOSE x \in S : \A y \in S : y <= x

rfind(t, pat) ==
    Max({-1} \cup {i \in 0..(Len(t) - Len(pat)) : SubSeq(t, i + 1, i + Len(pat)) = pat})

find_split_point(t) ==
    IF rfind(t, <<"\n", "\n">>) > 0 THEN rfind(t, <<"\n", "\n">>) + 1
    ELSE IF rfind(t, <<"\n">>) > 0 THEN rfind(t, <<"\n">>) + 1
    ELSE IF rfind(t, <<" ">>) > 0 THEN rfind(t, <<" ">>) + 1
    ELSE Len(t)

RECURSIVE trim_start_whitespace(_, _)
trim_start_whitespace(t, c) ==
    IF t # <<>> /\ Head(t) \in {c, " "} THEN trim_start_whitespace(Tail(t), c) ELSE t

RECURSIVE trim_start_matches(_, _)
trim_start_matches(t, c) ==
    IF t # <<>> /\ Head(t) = c THEN trim_start_matches(Tail(t), c) ELSE t

RECURSIVE trim_end_matches(_, _)
trim_end_matches(t, c) ==
    IF t # <<>> /\ t[Len(t)] = c THEN trim_end_matches(SubSeq(t, 1, Len(t) - 1), c) ELSE t

\* str::trim on a line: the whitespace of a line of these texts is the space.
trim(line) == trim_end_matches(trim_start_matches(line, " "), " ")

starts_with(t, pat) == Len(t) >= Len(pat) /\ SubSeq(t, 1, Len(pat)) = pat

\* str::lines: the text between line feeds; a final line feed ends the last
\* line and starts no empty one.
RECURSIVE lines(_)
lines(t) ==
    IF t = <<>> THEN <<>>
    ELSE IF \E i \in DOMAIN t : t[i] = "\n"
      THEN LET i == CHOOSE j \in DOMAIN t : t[j] = "\n" /\ \A h \in 1..(j - 1) : t[h] # "\n"
           IN <<SubSeq(t, 1, i - 1)>> \o lines(SubSeq(t, i + 1, Len(t)))
      ELSE <<t>>

\* Pass 1: the raw chunks.
SearchAreaWide(buf, max_len) == SubSeq(buf, 1, max_len + 1)
SearchArea(buf, max_len) == SubSeq(buf, 1, max_len)

RECURSIVE NaiveSplit(_, _)
NaiveSplit(buf, max_len) ==
    IF buf = <<>> THEN <<>>
    ELSE IF Len(buf) <= max_len THEN <<buf>>
    ELSE LET split_at == find_split_point(SearchArea(buf, max_len))
         IN <<SubSeq(buf, 1, split_at)>> \o
            NaiveSplit(trim_start_matches(SubSeq(buf, split_at + 1, Len(buf)), "\n"), max_len)

\* Pass 2, the fence state after the lines of a raw chunk.
NoFence == [in_code_block |-> FALSE, code_fence |-> <<>>]

RECURSIVE TrackFences(_, _)
TrackFences(ls, st) ==
    IF ls = <<>> THEN st
    ELSE LET trimmed == trim(Head(ls))
             next == IF ~starts_with(trimmed, Fence) THEN st
                     ELSE IF st.in_code_block THEN NoFence
                     ELSE [in_code_block |-> TRUE, code_fence |-> trimmed]
         IN TrackFences(Tail(ls), next)

Reopen(st) == IF st.in_code_block THEN st.code_fence \o <<"\n">> ELSE <<>>
Close(st) == IF st.in_code_block THEN <<"\n">> \o Fence ELSE <<>>

RECURSIVE RepairFences(_, _)
RepairFences(raw_chunks, st) ==
    IF raw_chunks = <<>> THEN <<>>
    ELSE LET raw == Head(raw_chunks)
             after == TrackFences(lines(raw), st)
         IN <<Reopen(st) \o raw \o Close(after)>> \o RepairFences(Tail(raw_chunks), after)

split_message(text, max_len) ==
    IF Len(text) <= max_len THEN <<text>>
    ELSE RepairFences(NaiveSplit(text, max_len), NoFence)

NoSplit == [text |-> <<>>, max_len |-> 1, chunks |-> <<>>, returned |-> FALSE]

SplitMessage ==
    /\ ~split.returned
    /\ split' = [split EXCEPT !.chunks = split_message(split.text, split.max_len),
                              !.returned = TRUE]
    /\ UNCHANGED <<sessions, nextSid, mutex, messages, subscribers, pi_session_id_saved,
                   readers, storage, rows, pc, op, key, session_arc, active,
                   response_text, events, prompt_result, todo, calls, count0, result,
                   routeVars, plugVars, ioVars, poll, tools, run, stream, ops>>

\* ---------------------------------------------------- run_polling_loop
\* The polling task of a Telegram channel after start(): pc is the await
\* point it is suspended at, updates the updates of the batch not yet
\* handled, requests the getUpdates requests initiated, inbound_len the
\* messages in the inbound queue, cancelled the CancellationToken, stop_pc the
\* position of TelegramChannel::stop and cancelled_at where the loop was when
\* the token was cancelled.
NoPoll ==
    [pc |-> "none", updates |-> 0, requests |-> 0, inbound_len |-> 0,
     cancelled |-> FALSE, cancelled_at |-> "none", stop_pc |-> "none"]

notPoll ==
    <<sessions, nextSid, mutex, messages, subscribers, pi_session_id_saved,
      readers, storage, rows, pc, op, key, session_arc, active,
      response_text, events, prompt_result, todo, calls, count0, result,
      routeVars, plugVars, ioVars, split, tools, run, stream, ops>>

is_cancelled_stale(c) == FALSE
is_cancelled(c) == c

\* The head of the loop: break when cancelled, else a getUpdates request is
\* made and the task waits in the select.
PollTop ==
    /\ poll.pc = "top"
    /\ IF is_cancelled(poll.cancelled)
         THEN poll' = [poll EXCEPT !.pc = "returned"]
         ELSE /\ poll.requests < MaxRequests
              /\ poll' = [poll EXCEPT !.pc = "get_updates", !.requests = @ + 1]
    /\ UNCHANGED notPoll

\* The cancelled() arm of the two selects.
PollCancelled ==
    /\ poll.pc \in {"get_updates", "sleep"}
    /\ poll.cancelled
    /\ poll' = [poll EXCEPT !.pc = "returned"]
    /\ UNCHANGED notPoll

\* getUpdates completes with n updates.
PollUpdatesOk(n) ==
    /\ poll.pc = "get_updates"
    /\ poll' = [poll EXCEPT !.pc = "batch", !.updates = n]
    /\ UNCHANGED notPoll

\* getUpdates fails: the backoff sleep.
PollUpdatesErr ==
    /\ poll.pc = "get_updates"
    /\ poll' = [poll EXCEPT !.pc = "sleep"]
    /\ UNCHANGED notPoll

PollSleepDone ==
    /\ poll.pc = "sleep"
    /\ poll' = [poll EXCEPT !.pc = "top"]
    /\ UNCHANGED notPoll

\* The for loop over the batch: an update without message is skipped, one
\* with a photo, document or voice is downloaded first, one with text is
\* forwarded; after the last update the loop goes back to its head.
UpdateKinds == {"skip", "media", "text"}

PollBatch(kind) ==
    /\ poll.pc = "batch"
    /\ IF poll.updates = 0
         THEN kind = "skip" /\ poll' = [poll EXCEPT !.pc = "top"]
         ELSE CASE kind = "skip" -> poll' = [poll EXCEPT !.updates = @ - 1]
                [] kind = "media" -> poll' = [poll EXCEPT !.pc = "download"]
                [] kind = "text" -> poll' = [poll EXCEPT !.pc = "send"]
    /\ UNCHANGED notPoll

\* download_as_attachment returns, at the latest by the timeout of the HTTP
\* client; a message left with neither text nor attachment is skipped.
PollDownload(forward) ==
    /\ poll.pc = "download"
    /\ poll' = IF forward THEN [poll EXCEPT !.pc = "send"]
                          ELSE [poll EXCEPT !.pc = "batch", !.updates = @ - 1]
    /\ UNCHANGED notPoll

\* sender.send(inbound).await: completes when the bounded queue has room.
PollSend ==
    /\ poll.pc = "send"
    /\ poll.inbound_len < QueueCap
    /\ poll' = [poll EXCEPT !.pc = "batch", !.updates = @ - 1, !.inbound_len = @ + 1]
    /\ UNCHANGED notPoll

\* run_message_loop: rx.recv().
InboundRecv ==
    /\ poll.inbound_len > 0
    /\ poll' = [poll EXCEPT !.inbound_len = @ - 1]
    /\ UNCHANGED notPoll

\* TelegramChannel::stop: cancel the token, then await the task's handle and
\* set Stopped.
TelegramStopCancel ==
    /\ poll.stop_pc = "none"
    /\ poll' = [poll EXCEPT !.cancelled = TRUE, !.cancelled_at = poll.pc,
                            !.stop_pc = "await"]
    /\ UNCHANGED notPoll

TelegramStopJoin ==
    /\ poll.stop_pc = "await"
    /\ poll.pc = "returned"
    /\ poll' = [poll EXCEPT !.stop_pc = "returned"]
    /\ UNCHANGED notPoll

\* ------------------------------------------------------------- restart
\* The gateway process ends and is started again over the same database and
\* the same session files: the sessions of the map are gone, live records
\* which ones the map held; the rows and the recorded histories stay, and
\* the sessions of the new run get new ids.
NoRun == [n |-> 1, live |-> {}]

Restart ==
    /\ run.n = 1
    /\ nextSid <= NumProcs
    /\ \A p \in Procs : pc[p] \in {"idle", "done"}
    /\ run' = [n |-> 2, live |-> {sessions[k] : k \in Keys} \ {0}]
    /\ sessions' = [k \in Keys |-> 0]
    /\ pc' = [p \in Procs |-> "idle"]
    /\ op' = [p \in Procs |-> "none"]
    /\ key' = [p \in Procs |-> "A"]
    /\ session_arc' = [p \in Procs |-> 0]
    /\ response_text' = [p \in Procs |-> <<>>]
    /\ events' = [p \in Procs |-> <<>>]
    /\ prompt_result' = [p \in Procs |-> <<>>]
    /\ calls' = [p \in Procs |-> <<>>]
    /\ count0' = [p \in Procs |-> 0]
    /\ result' = [p \in Procs |-> NoResult]
    /\ UNCHANGED <<nextSid, mutex, messages, subscribers, pi_session_id_saved, readers,
                   storage, rows, active, todo, routeVars, plugVars, ioVars, split, poll,
                   tools, stream, ops>>

\* ------------------------------------------------------ streaming path
\* The streaming branch of the routing task for a plugin whose
\* supports_streaming() is true: route is the routing task (spawned: the
\* send_streaming task is spawned and the prompt is called or about to be,
\* join: awaiting the task's handle, done), display the send_streaming task
\* and read the number of events of the channel it has received.
NoStream == [p \in Procs |-> [route |-> "none", display |-> "none", read |-> 0]]

notStream ==
    <<sessions, nextSid, mutex, messages, subscribers, pi_session_id_saved,
      readers, storage, rows, pc, op, key, session_arc, active,
      response_text, events, prompt_result, todo, calls, count0, result,
      routeVars, plugVars, ioVars, split, poll, tools, run, ops>>

InProgress(p) == pc[p] \notin {"idle", "done"}

\* A session exists as long as the map or a call in progress holds its Arc.
SessionAlive(s) ==
    \/ \E k \in Keys : sessions[k] = s
    \/ \E q \in Procs : session_arc[q] = s /\ InProgress(q)

\* The senders of the channel of call p: event_tx, held by the routing task
\* until the call, by the call until it has subscribed its closure and then
\* by the closure, which the session keeps; done_tx, held by the call.
SenderAlive(p) ==
    \/ stream[p].route = "spawned" /\ pc[p] = "idle"
    \/ InProgress(p)
    \/ \E s \in Sids : /\ \E i \in DOMAIN subscribers[s] : subscribers[s][i] = p
                       /\ SessionAlive(s)

\* unbounded_channel() and tokio::spawn of ch.send_streaming(&metadata, event_rx).
StreamSpawn(p) ==
    /\ pc[p] = "idle"
    /\ stream[p].route = "none"
    /\ \A q \in Procs : q < p => stream[q].route # "none"
    /\ stream' = [stream EXCEPT ![p] = [route |-> "spawned", display |-> "running", read |-> 0]]
    /\ UNCHANGED notStream

\* The match on the result of the prompt: on Ok the handle of the
\* send_streaming task is awaited, on Err the error is logged.
StreamResult(p) ==
    /\ stream[p].route = "spawned"
    /\ pc[p] = "done"
    /\ stream' = [stream EXCEPT ![p].route = IF result[p].ok THEN "join" ELSE "done"]
    /\ UNCHANGED notStream

\* handle.await returns.
StreamJoin(p) ==
    /\ stream[p].route = "join"
    /\ stream[p].display = "returned"
    /\ stream' = [stream EXCEPT ![p].route = "done"]
    /\ UNCHANGED notStream

\* send_streaming, stream_rx.recv() yields an event: Done ends the loop, the
\* final edit is made and the task returns.
DisplayRecv(p) ==
    /\ stream[p].display = "running"
    /\ stream[p].read < Len(events[p])
    /\ stream' = [stream EXCEPT
          ![p].read = @ + 1,
          ![p].display = IF events[p][stream[p].read + 1].type = "Done" THEN "returned" ELSE @]
    /\ UNCHANGED notStream

\* send_streaming, stream_rx.recv() yields None: every sender is dropped and
\* every event has been received.
DisplayClosed(p) ==
    /\ stream[p].display = "running"
    /\ stream[p].read = Len(events[p])
    /\ ~SenderAlive(p)
    /\ stream' = [stream EXCEPT ![p].display = "returned"]
    /\ UNCHANGED notStream

\* ------------------------------------------------------ gateway ops
\* The channel of GatewayOps (queue), the caller whose op
\* run_gateway_ops_loop is handling (cur, 0: none) and, per prompt, the
\* gateway tool it executes (none, waiting for the reply, replied,
\* returned).  The loop is the last process of Procs.
OpsProc == NumProcs
GatewayOps == {"list", "history", "send"}

NoOps == [queue |-> <<>>, cur |-> 0, tool |-> [p \in Procs |-> "none"]]

notOps ==
    <<sessions, nextSid, mutex, messages, subscribers, pi_session_id_saved,
      readers, storage, rows, pc, op, key, session_arc, active,
      response_text, events, prompt_result, todo, calls, count0, result,
      routeVars, plugVars, ioVars, split, poll, tools, run, stream>>

\* execute() of sessions_list, sessions_history or sessions_send during the
\* prompt of call p: the op is sent with a oneshot sender and the reply is
\* awaited.
ToolCall(p, kind, k) ==
    /\ pc[p] = "run1"
    /\ ops.tool[p] = "none"
    /\ ops' = [ops EXCEPT !.queue = Append(@, [by |-> p, kind |-> kind, session_key |-> k]),
                          !.tool[p] = "waiting"]
    /\ UNCHANGED notOps

\* rx.await returns the reply; the tool returns its result to the agent.
ToolReturn(p) ==
    /\ ops.tool[p] = "replied"
    /\ ops' = [ops EXCEPT !.tool[p] = "returned"]
    /\ UNCHANGED notOps

\* ops_rx.recv() yields the next op: the loop calls list_sessions,
\* get_history or send_message and awaits it.
OpsRecv ==
    /\ ops.queue # <<>>
    /\ ops.cur = 0
    /\ pc[OpsProc] = "idle"
    /\ LET o == Head(ops.queue)
       IN /\ ops' = [ops EXCEPT !.queue = Tail(@), !.cur = o.by]
          /\ op' = [op EXCEPT ![OpsProc] = o.kind]
          /\ key' = [key EXCEPT ![OpsProc] = o.session_key]
          /\ pc' = [pc EXCEPT ![OpsProc] =
                CASE o.kind = "list" -> "list"
                  [] o.kind = "history" -> "history"
                  [] o.kind = "send" -> "ensure"]
    /\ UNCHANGED <<sessVars, callVars, readers, storage, rows, session_arc, calls, count0,
                   result, routeVars, plugVars, ioVars, split, poll, tools, run, stream>>

\* reply.send(...) with the result of the call; the loop goes back to recv.
OpsReply ==
    /\ ops.cur # 0
    /\ pc[OpsProc] = "done"
    /\ ops' = [ops EXCEPT !.cur = 0, !.tool[ops.cur] = "replied"]
    /\ pc' = [pc EXCEPT ![OpsProc] = "idle"]
    /\ op' = [op EXCEPT ![OpsProc] = "none"]
    /\ session_arc' = [session_arc EXCEPT ![OpsProc] = 0]
    /\ result' = [result EXCEPT ![OpsProc] = NoResult]
    /\ calls' = [calls EXCEPT ![OpsProc] = <<>>]
    /\ response_text' = [response_text EXCEPT ![OpsProc] = <<>>]
    /\ UNCHANGED <<sessVars, active, events, prompt_result, todo, readers, storage, rows, key,
                   count0, routeVars, plugVars, ioVars, split, poll, tools, run, stream>>

\* ------------------------------------------------------- tool policy
\* TOOL_GROUPS, with the group: prefix kept in the key.
TOOL_GROUPS ==
    [g \in {"group:fs", "group:runtime", "group:web", "group:memory", "group:sessions",
            "group:messaging", "group:search", "group:media", "group:automation"} |->
        CASE g = "group:fs" -> {"read", "write", "edit"}
          [] g = "group:runtime" -> {"bash", "process"}
          [] g = "group:web" -> {"web_search", "web_fetch"}
          [] g = "group:memory" -> {"memory_search", "memory_get"}
          [] g = "group:sessions" -> {"sessions_list", "sessions_history", "sessions_send",
                                      "sessions_spawn", "session_status"}
          [] g = "group:messaging" -> {"message"}
          [] g = "group:search" -> {"grep", "find", "ls"}
          [] g = "group:media" -> {"image", "tts"}
          [] g = "group:automation" -> {"cron", "gateway"}]

expand_name(name) == IF name \in DOMAIN TOOL_GROUPS THEN TOOL_GROUPS[name] ELSE {name}

expand_names(names) == UNION {expand_name(n) : n \in names}

Profiles == {"minimal", "coding", "messaging", "full"}

base_tools(profile) ==
    CASE profile = "minimal" -> {"session_status"}
      [] profile = "coding" -> {"group:fs", "group:runtime", "group:search", "group:sessions",
                                "group:memory", "image"}
      [] profile = "messaging" -> {"group:messaging", "sessions_list", "sessions_history",
                                   "sessions_send", "session_status"}
      [] profile = "full" -> {}

\* The lists are sets here: the function only tests membership, and its
\* result is sorted.
resolve_effective_tools(policy, all_tool_names) ==
    LET base == IF policy.profile = "full" /\ policy.allow = {} THEN all_tool_names
                ELSE IF policy.allow # {} THEN expand_names(policy.allow)
                ELSE expand_names(base_tools(policy.profile))
        allowed == base \cup expand_names(policy.also_allow)
        kept == allowed \cap all_tool_names
        denied == expand_names(policy.deny)
    IN  kept \ denied

is_tool_allowed(tool_name, policy, all_tool_names) ==
    tool_name \in resolve_effective_tools(policy, all_tool_names)

\* The names of the registry create_all_tools builds and the names
\* create_gateway_tools registers.  create_all_tools and create_coding_tools
\* belong to pi_coding_agent: the first is taken to hold the file and shell
\* tools, the second may be any non-empty part of it.
AllTools == {"read", "write", "bash"}
CodingSets == (SUBSET AllTools) \ {{}}
GatewayTools ==
    {"sessions_list", "sessions_history", "sessions_send", "sessions_spawn",
     "session_status", "agents_list", "gateway", "message", "image", "memory_search",
     "memory_get", "process", "exec", "tts", "cron"}

\* The policy create_session and build_tools_for_agent build: the agent's
\* deny list extended by the global one.
AgentPolicy(t) ==
    [profile |-> t.profile, allow |-> t.allow, also_allow |-> t.also_allow,
     deny |-> t.deny \cup t.global_deny]

build_tools_for_agent(t) ==
    LET effective_names == resolve_effective_tools(AgentPolicy(t), AllTools)
    IN  IF effective_names = {} THEN t.coding ELSE effective_names \cap AllTools

NoTools ==
    [profile |-> "full", allow |-> {}, also_allow |-> {}, deny |-> {}, global_deny |-> {},
     coding |-> {}, ops_tx |-> FALSE, installed |-> {}, created |-> FALSE]

notTools ==
    <<sessions, nextSid, mutex, messages, subscribers, pi_session_id_saved,
      readers, storage, rows, pc, op, key, session_arc, active,
      response_text, events, prompt_result, todo, calls, count0, result,
      routeVars, plugVars, ioVars, split, poll, run, stream, ops>>

\* create_session, as far as the tools of the new session go: the tools of
\* build_tools_for_agent and, with an ops channel, the gateway tools the
\* policy allows.
CreateSessionTools ==
    /\ ~tools.created
    /\ tools' = [tools EXCEPT
          !.installed = build_tools_for_agent(tools) \cup
                        (IF tools.ops_tx
                           THEN {n \in GatewayTools : is_tool_allowed(n, AgentPolicy(tools), GatewayTools)}
                           ELSE {}),
          !.created = TRUE]
    /\ UNCHANGED notTools

InitPlugins ==
    /\ inbound = <<>>
    /\ task = [p \in Procs |-> NoMsg]
    /\ task_pc = [p \in Procs |-> "none"]
    /\ typing = [p \in Procs |-> "none"]
    /\ outbox = <<>>
    /\ channels = NoChannels
    /\ plugin = [pl \in Plugins |-> NewPlugin]
    /\ written = [pl \in Plugins |-> <<>>]
    /\ reg = NoReg
    /\ callee = [p \in Procs |-> 0]
    /\ rpc_id = [p \in Procs |-> 0]
    /\ plugin0 = [p \in Procs |-> NewPlugin]
    /\ InitIo

InitChannels ==
    /\ InitPlugins
    /\ split = NoSplit
    /\ poll = NoPoll
    /\ tools = NoTools
    /\ ops = NoOps
    /\ stream = NoStream
    /\ run = NoRun

\* new() or with_storage() on an empty database.
Init ==
    /\ InitManager
    /\ InitChannels
    /\ storage \in BOOLEAN
    /\ rows = [k \in Keys |-> NoRow]

\* ------------------------------------------------------------- operations
Range(f) == {f[i] : i \in DOMAIN f}

Orders(S) ==
    {s \in [1..Cardinality(S) -> S] : \A i, j \in DOMAIN s : i # j => s[i] # s[j]}

SendOps == {"send", "stream"}
Ops == {"send", "stream", "create", "delete", "history", "list"}

FirstPc(o) ==
    CASE o \in SendOps -> "ensure"
      [] o = "create" -> "create"
      [] o = "delete" -> "delete"
      [] o = "history" -> "history"
      [] o = "list" -> "list"
      [] o = "has" -> "has"
      [] o = "restore" -> "restore"

\* A caller invokes operation o of the manager on key k.  Callers are
\* numbered in the order of their invocation; list_sessions takes no key.
Call(p, o, k) ==
    /\ UNCHANGED chanVars
    /\ pc[p] = "idle"
    /\ \A q \in Procs : q < p => pc[q] # "idle"
    /\ o = "list" => k = "A"
    /\ op' = [op EXCEPT ![p] = o]
    /\ key' = [key EXCEPT ![p] = k]
    /\ count0' = [count0 EXCEPT ![p] = rows[k].message_count]
    /\ pc' = [pc EXCEPT ![p] = FirstPc(o)]
    /\ UNCHANGED <<sessVars, callVars, readers, storage, rows, session_arc, calls, result>>

\* A caller that invokes the manager after its earlier calls have returned.
CallAfter(p, o, k) ==
    /\ \A q \in Procs : q < p => pc[q] = "done"
    /\ Call(p, o, k)

\* ensure_session, first half: look the key up under a read guard.
EnsureSession(p) ==
    /\ UNCHANGED chanVars
    /\ pc[p] = "ensure"
    /\ IF sessions[key[p]] # 0
         THEN /\ session_arc' = [session_arc EXCEPT ![p] = sessions[key[p]]]
              /\ pc' = [pc EXCEPT ![p] = "lock"]
         ELSE /\ pc' = [pc EXCEPT ![p] = "create"]
              /\ UNCHANGED session_arc
    /\ UNCHANGED <<sessVars, callVars, readers, storage, rows, op, key, calls, count0, result>>

\* create_session up to the unconditional insert into the map.
\* restore_sessions, the end of one turn of its loop: the next row, or
\* Ok(count) after the last.
RestoreContinue(p) ==
    /\ todo' = [todo EXCEPT ![p] = Tail(@)]
    /\ IF Tail(todo[p]) = <<>>
         THEN /\ result' = [result EXCEPT ![p] = Ok(result[p].value)]
              /\ pc' = [pc EXCEPT ![p] = "done"]
              /\ UNCHANGED key
         ELSE /\ key' = [key EXCEPT ![p] = Head(Tail(todo[p])).session_key]
              /\ pc' = [pc EXCEPT ![p] = "create"]
              /\ UNCHANGED result

\* create_session fails; restore_sessions warns and continues with the next
\* row.
CreateSessionFail(p) ==
    /\ UNCHANGED chanVars
    /\ pc[p] = "create"
    /\ IF op[p] = "restore"
         THEN RestoreContinue(p)
         ELSE /\ result' = [result EXCEPT ![p] = Err(<<"Failed to create agent session">>)]
              /\ pc' = [pc EXCEPT ![p] = "done"]
              /\ UNCHANGED <<key, todo>>
    /\ UNCHANGED <<sessVars, active, response_text, events, prompt_result, readers, storage,
                   rows, op, session_arc, calls, count0>>

Insert(m, k, s) == [m EXCEPT ![k] = s]

CreateSession(p) ==
    /\ UNCHANGED chanVars
    /\ pc[p] = "create"
    /\ readers = {}
    /\ sessions' = Insert(sessions, key[p], nextSid)
    /\ nextSid' = nextSid + 1
    /\ pc' = [pc EXCEPT ![p] = "persist"]
    /\ UNCHANGED <<mutex, messages, subscribers, pi_session_id_saved, callVars, readers,
                   storage, rows, op, key, session_arc, calls, count0, result>>

\* create_session, the metadata upsert; a failure (wrote is false) is logged
\* and ignored.
PersistSession(p, wrote) ==
    /\ UNCHANGED chanVars
    /\ pc[p] = "persist"
    /\ IF storage
         THEN /\ rows' = IF wrote THEN [rows EXCEPT ![key[p]] = save_session(@)] ELSE rows
              /\ calls' = [calls EXCEPT ![p] = Append(@, "save_session")]
         ELSE UNCHANGED <<rows, calls>>
    /\ IF op[p] = "create"
         THEN /\ result' = [result EXCEPT ![p] = Ok(<<>>)]
              /\ pc' = [pc EXCEPT ![p] = "done"]
         ELSE /\ pc' = [pc EXCEPT ![p] = IF op[p] = "restore" THEN "restore_history"
                                                                ELSE "reget"]
              /\ UNCHANGED result
    /\ UNCHANGED <<sessVars, callVars, readers, storage, op, key, session_arc, count0>>

\* ensure_session, second half: read the map again after create_session.
EnsureSessionGet(p) ==
    /\ UNCHANGED chanVars
    /\ pc[p] = "reget"
    /\ IF sessions[key[p]] # 0
         THEN /\ session_arc' = [session_arc EXCEPT ![p] = sessions[key[p]]]
              /\ pc' = [pc EXCEPT ![p] = "lock"]
              /\ UNCHANGED result
         ELSE /\ result' = [result EXCEPT ![p] = Err(<<"Session not found after creation">>)]
              /\ pc' = [pc EXCEPT ![p] = "done"]
              /\ UNCHANGED session_arc
    /\ UNCHANGED <<sessVars, callVars, readers, storage, rows, op, key, calls, count0>>

UserMsg(p) == [role |-> "user", by |-> p]
AssistantMsg(p) == [role |-> "assistant", by |-> p]

\* session_arc.lock().await, subscribe, maybe_compact and the start of the
\* first prompt_with_content.  auto: should_compact holds and compaction is
\* enabled, so that maybe_compact calls compact(Some(settings)).
LockAndPrompt(p, auto) ==
    /\ UNCHANGED chanVars
    /\ pc[p] = "lock"
    /\ mutex[session_arc[p]] = 0
    /\ mutex' = [mutex EXCEPT ![session_arc[p]] = p]
    /\ subscribers' = [subscribers EXCEPT ![session_arc[p]] = Append(@, p)]
    /\ active' = [active EXCEPT ![p] = (op[p] = "stream")]
    /\ calls' = [calls EXCEPT ![p] =
                     @ \o (IF auto THEN <<"compact_settings">> ELSE <<>>) \o <<"prompt">>]
    /\ messages' = [messages EXCEPT ![session_arc[p]] = Append(@, UserMsg(p))]
    /\ pc' = [pc EXCEPT ![p] = "run1"]
    /\ UNCHANGED <<sessions, nextSid, pi_session_id_saved, response_text, events,
                   prompt_result, todo, readers, storage, rows, op, key, session_arc,
                   count0, result>>

\* ------------------------------------------------------ the event callbacks
EventKinds == {"TextDelta", "ToolStart", "ToolEnd", "Error", "TurnEnd"}
ForwardedKinds == {"TextDelta", "ToolStart", "ToolEnd", "Error"}

\* What the agent produces during one prompt: a sequence of event kinds.
\* The payload of an event names the prompt that produced it (call, attempt,
\* position), so that texts and event streams can be traced to it.
Payload(p, att, i) == [by |-> p, att |-> att, seq |-> i]

\* The closure that send_message_with_attachments subscribes: it collects
\* the text deltas.
CollectSend(text, kind, pl) ==
    IF kind = "TextDelta" THEN Append(text, pl) ELSE text

\* The closure that send_message_streaming_with_attachments subscribes: a
\* no-op once its flag is false, else it collects text deltas and forwards
\* the typed events to event_tx.
CollectStreamForwardOnly(flag, text, kind, pl) == text

CollectStream(flag, text, kind, pl) ==
    IF flag /\ kind = "TextDelta" THEN Append(text, pl) ELSE text

ForwardStream(flag, evs, kind, pl) ==
    IF flag /\ kind \in ForwardedKinds
      THEN Append(evs, [type |-> kind, src |-> pl])
      ELSE evs

RECURSIVE TextAfter(_, _, _, _, _, _)
TextAfter(q, text, script, p, att, i) ==
    IF i > Len(script) THEN text
    ELSE TextAfter(q,
                   IF op[q] = "stream"
                     THEN CollectStream(active[q], text, script[i], Payload(p, att, i))
                     ELSE CollectSend(text, script[i], Payload(p, att, i)),
                   script, p, att, i + 1)

RECURSIVE EventsAfter(_, _, _, _, _, _)
EventsAfter(q, evs, script, p, att, i) ==
    IF i > Len(script) THEN evs
    ELSE EventsAfter(q,
                     IF op[q] = "stream"
                       THEN ForwardStream(active[q], evs, script[i], Payload(p, att, i))
                       ELSE evs,
                     script, p, att, i + 1)

\* The agent session of call p produces the events of script during attempt
\* att and hands each one to every subscriber the session retains.
Deliver(p, att, script) ==
    LET subs == Range(subscribers[session_arc[p]])
    IN /\ response_text' = [q \in Procs |->
              IF q \in subs THEN TextAfter(q, response_text[q], script, p, att, 1)
              ELSE response_text[q]]
       /\ events' = [q \in Procs |->
              IF q \in subs THEN EventsAfter(q, events[q], script, p, att, 1)
              ELSE events[q]]

\* `?` on an Err: the call returns, the session guard is dropped.
Fail(p, e) ==
    /\ result' = [result EXCEPT ![p] = Err(e)]
    /\ mutex' = [mutex EXCEPT ![session_arc[p]] = 0]
    /\ pc' = [pc EXCEPT ![p] = "done"]

Attempt(p) == IF pc[p] = "run1" THEN 1 ELSE 2

\* prompt_with_content produces its events and returns Ok.
PromptOk(p, script) ==
    /\ UNCHANGED chanVars
    /\ pc[p] \in {"run1", "run2"}
    /\ Deliver(p, Attempt(p), script)
    /\ messages' = [messages EXCEPT ![session_arc[p]] = Append(@, AssistantMsg(p))]
    /\ pc' = [pc EXCEPT ![p] = "post"]
    /\ UNCHANGED <<sessions, nextSid, mutex, subscribers, pi_session_id_saved, active,
                   prompt_result, todo, readers, storage, rows, op, key, session_arc,
                   calls, count0, result>>

\* The first prompt_with_content produces its events and returns Err(e).
PromptErr(p, script, e) ==
    /\ UNCHANGED chanVars
    /\ pc[p] = "run1"
    /\ Deliver(p, 1, script)
    /\ prompt_result' = [prompt_result EXCEPT ![p] = e]
    /\ IF IsContextOverflow(e)
         THEN /\ pc' = [pc EXCEPT ![p] = "compact"]
              /\ UNCHANGED <<mutex, result>>
         ELSE Fail(p, <<"Prompt error: ", e>>)
    /\ UNCHANGED <<sessions, nextSid, messages, subscribers, pi_session_id_saved, active,
                   todo, readers, storage, rows, op, key, session_arc, calls, count0>>

EmergencyCompactRetryAnyway(p, compacted) ==
    /\ UNCHANGED chanVars
    /\ pc[p] = "compact"
    /\ calls' = [calls EXCEPT ![p] =
          @ \o <<IF compacted THEN "compact_none_ok" ELSE "compact_none_err", "prompt">>]
    /\ messages' = [messages EXCEPT ![session_arc[p]] = Append(@, UserMsg(p))]
    /\ pc' = [pc EXCEPT ![p] = "run2"]
    /\ UNCHANGED <<sessions, nextSid, mutex, subscribers, pi_session_id_saved, callVars,
                   readers, storage, rows, op, key, session_arc, count0, result>>

\* session.compact(None) after a context overflow; on Ok the prompt is
\* issued again, on Err the first error is returned.
EmergencyCompact(p, compacted) ==
    /\ UNCHANGED chanVars
    /\ pc[p] = "compact"
    /\ IF compacted
         THEN /\ calls' = [calls EXCEPT ![p] = @ \o <<"compact_none_ok", "prompt">>]
              /\ messages' = [messages EXCEPT ![session_arc[p]] = Append(@, UserMsg(p))]
              /\ pc' = [pc EXCEPT ![p] = "run2"]
              /\ UNCHANGED <<mutex, result>>
         ELSE /\ calls' = [calls EXCEPT ![p] = Append(@, "compact_none_err")]
              /\ Fail(p, <<"Prompt error: ", prompt_result[p]>>)
              /\ UNCHANGED messages
    /\ UNCHANGED <<sessions, nextSid, subscribers, pi_session_id_saved, callVars, readers,
                   storage, rows, op, key, session_arc, count0>>

\* The retried prompt_with_content produces its events and returns Err(e).
RetryErr(p, script, e) ==
    /\ UNCHANGED chanVars
    /\ pc[p] = "run2"
    /\ Deliver(p, 2, script)
    /\ Fail(p, <<"Prompt error after compaction: ", e>>)
    /\ UNCHANGED <<sessions, nextSid, messages, subscribers, pi_session_id_saved, active,
                   prompt_result, todo, readers, storage, rows, op, key, session_arc,
                   calls, count0>>

PostPromptPropagate(p, hasId, piOk, actOk) ==
    /\ UNCHANGED chanVars
    /\ pc[p] = "post"
    /\ active' = [active EXCEPT ![p] = FALSE]
    /\ result' = [result EXCEPT ![p] =
          IF storage /\ ~actOk THEN Err(<<"storage">>) ELSE Ok(response_text[p])]
    /\ mutex' = [mutex EXCEPT ![session_arc[p]] = 0]
    /\ pc' = [pc EXCEPT ![p] = "done"]
    /\ UNCHANGED <<sessions, nextSid, messages, subscribers, pi_session_id_saved,
                   response_text, events, prompt_result, todo, readers, storage, rows, op,
                   key, session_arc, calls, count0>>

\* After a successful prompt: deactivate the streaming subscriber, capture
\* the pi session id, update the activity, send Done, return the text.
\* hasId: session_id() is Some; piOk, actOk: the storage writes succeed.
PostPrompt(p, hasId, piOk, actOk) ==
    /\ UNCHANGED chanVars
    /\ pc[p] = "post"
    /\ LET sid == session_arc[p]
           k == key[p]
           capture == ~pi_session_id_saved[sid] /\ hasId /\ storage
           r1 == IF capture /\ piOk THEN save_pi_session_id(rows[k], sid) ELSE rows[k]
           r2 == IF storage /\ actOk THEN update_session_activity(r1) ELSE r1
       IN /\ active' = [active EXCEPT ![p] = FALSE]
          /\ pi_session_id_saved' =
                [pi_session_id_saved EXCEPT ![sid] = @ \/ (capture /\ piOk)]
          /\ rows' = [rows EXCEPT ![k] = r2]
          /\ calls' = [calls EXCEPT ![p] =
                @ \o (IF capture THEN <<"save_pi_session_id">> ELSE <<>>)
                  \o (IF storage THEN <<"update_session_activity">> ELSE <<>>)]
          /\ result' = [result EXCEPT ![p] = Ok(response_text[p])]
          /\ events' = [events EXCEPT ![p] =
                IF op[p] = "stream"
                  THEN Append(@, [type |-> "Done", full_response |-> response_text[p]])
                  ELSE @]
          /\ mutex' = [mutex EXCEPT ![sid] = 0]
    /\ pc' = [pc EXCEPT ![p] = "done"]
    /\ UNCHANGED <<sessions, nextSid, messages, subscribers, response_text, prompt_result,
                   todo, readers, storage, op, key, session_arc, count0>>

\* delete_session: remove the entry under the write guard.
SessionsKeep(m, k) == m
SessionsRemove(m, k) == [m EXCEPT ![k] = 0]

DeleteSession(p) ==
    /\ UNCHANGED chanVars
    /\ pc[p] = "delete"
    /\ readers = {}
    /\ sessions' = SessionsRemove(sessions, key[p])
    /\ IF sessions[key[p]] # 0 /\ storage
         THEN /\ pc' = [pc EXCEPT ![p] = "delete_persist"]
              /\ UNCHANGED result
         ELSE /\ pc' = [pc EXCEPT ![p] = "done"]
              /\ result' = [result EXCEPT ![p] = Ok(<<sessions[key[p]] # 0>>)]
    /\ UNCHANGED <<nextSid, mutex, messages, subscribers, pi_session_id_saved, callVars,
                   readers, storage, rows, op, key, session_arc, calls, count0>>

\* delete_session: the soft delete of the row; a failure is logged and ignored.
DeleteSessionPersist(p, wrote) ==
    /\ UNCHANGED chanVars
    /\ pc[p] = "delete_persist"
    /\ rows' = IF wrote THEN [rows EXCEPT ![key[p]] = storage_delete_session(@)] ELSE rows
    /\ calls' = [calls EXCEPT ![p] = Append(@, "delete_session")]
    /\ result' = [result EXCEPT ![p] = Ok(<<TRUE>>)]
    /\ pc' = [pc EXCEPT ![p] = "done"]
    /\ UNCHANGED <<sessVars, callVars, readers, storage, op, key, session_arc, count0>>

\* restore_sessions up to its loop: Ok(0) without storage, Err when
\* list_sessions fails, else the active rows in the order of the query, each
\* with the pi_session_id it held.
PresentRows == {k \in Keys : rows[k].present}
ActiveRows == {k \in Keys : rows[k].present /\ rows[k].is_active}

RestoreSessions(p, order, listOk) ==
    /\ UNCHANGED chanVars
    /\ pc[p] = "restore"
    /\ order \in Orders(ActiveRows)
    /\ LET saved == [i \in DOMAIN order |->
                        [session_key |-> order[i], pi_session_id |-> rows[order[i]].pi_session_id]]
       IN IF ~storage
            THEN /\ result' = [result EXCEPT ![p] = Ok(<<0>>)]
                 /\ pc' = [pc EXCEPT ![p] = "done"]
                 /\ UNCHANGED <<todo, key, calls>>
            ELSE /\ calls' = [calls EXCEPT ![p] = Append(@, "list_sessions")]
                 /\ IF ~listOk
                      THEN /\ result' = [result EXCEPT ![p] =
                                            Err(<<"Failed to load sessions from storage">>)]
                           /\ pc' = [pc EXCEPT ![p] = "done"]
                           /\ UNCHANGED <<todo, key>>
                      ELSE IF saved = <<>>
                             THEN /\ result' = [result EXCEPT ![p] = Ok(<<0>>)]
                                  /\ pc' = [pc EXCEPT ![p] = "done"]
                                  /\ UNCHANGED <<todo, key>>
                             ELSE /\ result' = [result EXCEPT ![p].value = <<Len(saved)>>]
                                  /\ todo' = [todo EXCEPT ![p] = saved]
                                  /\ key' = [key EXCEPT ![p] = saved[1].session_key]
                                  /\ pc' = [pc EXCEPT ![p] = "create"]
    /\ UNCHANGED <<sessVars, active, response_text, events, prompt_result, readers, storage,
                   rows, op, session_arc, count0>>

\* session.restore_session(pi_sid): the history of the JSONL file of that
\* id, which is what the session with that id has recorded, in this run or
\* in an earlier one.
History(pi_sid) == IF pi_sid \in Sids THEN messages[pi_sid] ELSE PastMessages

\* restore_sessions after create_session succeeded: when the row held a
\* pi_session_id and the key is in the map, the session is locked and its
\* JSONL history reloaded; a failed reload is logged.
RestoreHistory(p, loaded) ==
    /\ UNCHANGED chanVars
    /\ pc[p] = "restore_history"
    /\ LET meta == Head(todo[p])
           sid == sessions[meta.session_key]
       IN IF meta.pi_session_id # 0 /\ sid # 0
            THEN /\ mutex[sid] = 0
                 /\ calls' = [calls EXCEPT ![p] = Append(@, "restore_session")]
                 /\ messages' = IF loaded THEN [messages EXCEPT ![sid] = History(meta.pi_session_id)]
                                          ELSE messages
                 /\ pi_session_id_saved' =
                       IF loaded THEN [pi_session_id_saved EXCEPT ![sid] = TRUE]
                                 ELSE pi_session_id_saved
            ELSE /\ loaded
                 /\ UNCHANGED <<calls, messages, pi_session_id_saved>>
    /\ RestoreContinue(p)
    /\ UNCHANGED <<sessions, nextSid, mutex, subscribers, active, response_text, events,
                   prompt_result, readers, storage, rows, op, session_arc, count0>>

\* has_session: contains_key under the read guard.
HasSession(p) ==
    /\ UNCHANGED chanVars
    /\ pc[p] = "has"
    /\ result' = [result EXCEPT ![p] = Ok(<<sessions[key[p]] # 0>>)]
    /\ pc' = [pc EXCEPT ![p] = "done"]
    /\ UNCHANGED <<sessVars, callVars, readers, storage, rows, op, key, session_arc, calls,
                   count0>>

\* get_history: take the read guard and look the key up; the guard is kept
\* while the call waits for the session.
GetHistory(p) ==
    /\ UNCHANGED chanVars
    /\ pc[p] = "history"
    /\ IF sessions[key[p]] # 0
         THEN /\ readers' = readers \cup {p}
              /\ session_arc' = [session_arc EXCEPT ![p] = sessions[key[p]]]
              /\ pc' = [pc EXCEPT ![p] = "history_lock"]
              /\ UNCHANGED result
         ELSE /\ result' = [result EXCEPT ![p] = Err(<<"Session not found">>)]
              /\ pc' = [pc EXCEPT ![p] = "done"]
              /\ UNCHANGED <<readers, session_arc>>
    /\ UNCHANGED <<sessVars, callVars, storage, rows, op, key, calls, count0>>

\* get_history: lock the session, copy its messages, drop both guards.
GetHistoryLocked(p) ==
    /\ UNCHANGED chanVars
    /\ pc[p] = "history_lock"
    /\ mutex[session_arc[p]] = 0
    /\ result' = [result EXCEPT ![p] = Ok(messages[session_arc[p]])]
    /\ readers' = readers \ {p}
    /\ pc' = [pc EXCEPT ![p] = "done"]
    /\ UNCHANGED <<sessVars, callVars, storage, rows, op, key, session_arc, calls, count0>>


\* list_sessions: take the read guard; the map is visited in some order.
ListSessions(p, order) ==
    /\ UNCHANGED chanVars
    /\ pc[p] = "list"
    /\ order \in Orders({k \in Keys : sessions[k] # 0})
    /\ IF order # <<>>
         THEN /\ readers' = readers \cup {p}
              /\ todo' = [todo EXCEPT ![p] = order]
              /\ pc' = [pc EXCEPT ![p] = "list_lock"]
              /\ UNCHANGED result
         ELSE /\ result' = [result EXCEPT ![p] = Ok(<<>>)]
              /\ pc' = [pc EXCEPT ![p] = "done"]
              /\ UNCHANGED <<readers, todo>>
    /\ UNCHANGED <<sessVars, active, response_text, events, prompt_result, storage, rows,
                   op, key, session_arc, calls, count0>>

\* list_sessions: lock the next session of the iteration and push its
\* SessionInfo; after the last one the read guard is dropped.
ListSessionsLocked(p) ==
    /\ UNCHANGED chanVars
    /\ pc[p] = "list_lock"
    /\ LET k == Head(todo[p])
           info == [session_key |-> k, message_count |-> Len(messages[sessions[k]])]
           value == Append(result[p].value, info)
       IN /\ mutex[sessions[k]] = 0
          /\ todo' = [todo EXCEPT ![p] = Tail(@)]
          /\ IF Tail(todo[p]) = <<>>
               THEN /\ result' = [result EXCEPT ![p] = Ok(value)]
                    /\ readers' = readers \ {p}
                    /\ pc' = [pc EXCEPT ![p] = "done"]
               ELSE /\ result' = [result EXCEPT ![p].value = value]
                    /\ UNCHANGED <<readers, pc>>
    /\ UNCHANGED <<sessVars, active, response_text, events, prompt_result, storage, rows,
                   op, key, session_arc, calls, count0>>

\* ------------------------------------------------------- the routing loop
Msg(c, s, t, a, cmd) ==
    [channel_id |-> c, sender_id |-> s, text |-> t, attachments |-> a, command |-> cmd]

\* metadata["command"]; "" stands for no such entry.
Commands == {"new", "reset", "help", "start", "status"}

\* The InboundMessages of two senders, one per channel: plain text, no text
\* with and without an attachment, and every command.
InboundMsgs ==
    {Msg("x", "u1", "hi", 0, ""), Msg("x", "u1", "", 0, ""), Msg("x", "u1", "", 1, ""),
     Msg("y", "u2", "hi", 0, ""), Msg("y", "u2", "/reset", 0, "reset"),
     Msg("y", "u2", "/help", 0, "help")}
    \cup {Msg("x", "u1", "/cmd", 0, c) : c \in Commands}

\* What the listener of a plugin hands to inbound_tx.  The Telegram polling
\* loop and the Discord handler skip a message with no text and no
\* attachment, and Discord maps its commands to new and help; the reader of
\* an external plugin forwards whatever the subprocess sent.
Forwards(pl, m) ==
    CASE channel_type(pl) = "telegram" ->
            m.channel_id = channel_id(pl) /\ ~(m.text = "" /\ m.attachments = 0)
      [] channel_type(pl) = "discord" ->
            /\ m.channel_id = channel_id(pl)
            /\ ~(m.text = "" /\ m.attachments = 0)
            /\ m.command \in {"", "new", "help"}
      [] OTHER -> TRUE

\* session_key is None in every message: the key is derived from channel
\* type, channel id and sender.  "A" and "B" name the two derived strings.
SessionKey(m) == IF <<m.channel_id, m.sender_id>> = <<"x", "u1">> THEN "A" ELSE "B"

NewReply == "New conversation started. How can I help you?"
HelpReply == "aobot - AI Assistant. Commands: /new /help"

Outbound(p, m, fixed, text) ==
    [channel_id |-> m.channel_id, recipient_id |-> m.sender_id, fixed |-> fixed,
     text |-> text, by |-> p]

\* The listener of plugin pl sends m on the inbound channel.
InboundSend(pl, m) ==
    /\ plugin[pl].process
    /\ Forwards(pl, m)
    /\ Len(inbound) + Cardinality({p \in Procs : task_pc[p] # "none"}) < NumCallers
    /\ inbound' = Append(inbound, m)
    /\ UNCHANGED <<task, task_pc, typing, outbox, plugVars, split, poll, tools, run, stream, ops, ioVars>>
    /\ UNCHANGED <<sessVars, callVars, readers, storage, rows, pc, op, key, session_arc,
                   calls, count0, result>>

\* run_message_loop: rx.recv() and tokio::spawn; tasks are numbered in the
\* order of receipt.
Recv(p) ==
    /\ inbound # <<>>
    /\ task_pc[p] = "none"
    /\ \A q \in Procs : q < p => task_pc[q] # "none"
    /\ task' = [task EXCEPT ![p] = Head(inbound)]
    /\ inbound' = Tail(inbound)
    /\ task_pc' = [task_pc EXCEPT ![p] = "spawned"]
    /\ UNCHANGED <<typing, outbox, plugVars, split, poll, tools, run, stream, ops, ioVars>>
    /\ UNCHANGED <<sessVars, callVars, readers, storage, rows, pc, op, key, session_arc,
                   calls, count0, result>>

\* The spawned task up to its first call of the session manager: the
\* command match, the fixed reply of help and start, the typing loop.
RouteTask(p) ==
    /\ task_pc[p] = "spawned"
    /\ pc[p] = "idle"
    /\ LET m == task[p]
           ch == channels[m.channel_id]
           use_streaming == ch # 0 /\ supports_streaming(ch)
       IN CASE m.command = "new" ->
                 /\ op' = [op EXCEPT ![p] = "delete"]
                 /\ pc' = [pc EXCEPT ![p] = "delete"]
                 /\ task_pc' = [task_pc EXCEPT ![p] = "command"]
                 /\ UNCHANGED <<typing, outbox>>
            [] m.command \in {"help", "start"} ->
                 /\ outbox' = Append(outbox, Outbound(p, m, TRUE, <<HelpReply>>))
                 /\ task_pc' = [task_pc EXCEPT ![p] = "done"]
                 /\ UNCHANGED <<typing, op, pc>>
            [] OTHER ->
                 /\ op' = [op EXCEPT ![p] = IF use_streaming THEN "stream" ELSE "send"]
                 /\ pc' = [pc EXCEPT ![p] = "ensure"]
                 /\ typing' = [typing EXCEPT ![p] =
                        IF ~use_streaming /\ ch # 0 THEN "running" ELSE "none"]
                 /\ task_pc' = [task_pc EXCEPT ![p] = "prompt"]
                 /\ UNCHANGED outbox
    /\ key' = [key EXCEPT ![p] = SessionKey(task[p])]
    /\ count0' = [count0 EXCEPT ![p] = rows[SessionKey(task[p])].message_count]
    /\ UNCHANGED <<inbound, task, plugVars, split, poll, tools, run, stream, ops, ioVars>>
    /\ UNCHANGED <<sessVars, callVars, readers, storage, rows, session_arc, calls, result>>

\* After delete_session has returned: the fixed reply of new.
CommandReply(p) ==
    /\ task_pc[p] = "command"
    /\ pc[p] = "done"
    /\ outbox' = Append(outbox, Outbound(p, task[p], TRUE, <<NewReply>>))
    /\ task_pc' = [task_pc EXCEPT ![p] = "done"]
    /\ UNCHANGED <<inbound, task, typing, plugVars, split, poll, tools, run, stream, ops, ioVars>>
    /\ UNCHANGED <<sessVars, callVars, readers, storage, rows, pc, op, key, session_arc,
                   calls, count0, result>>

ReplyCancelOnOk(p) ==
    /\ task_pc[p] = "prompt"
    /\ pc[p] = "done"
    /\ typing' = [typing EXCEPT ![p] =
          IF @ = "running" /\ result[p].ok THEN "cancelled" ELSE @]
    /\ task_pc' = [task_pc EXCEPT ![p] =
          IF result[p].ok /\ op[p] = "send" THEN "reply" ELSE "done"]
    /\ UNCHANGED <<inbound, task, outbox, plugVars, split, poll, tools, run, stream, ops, ioVars>>
    /\ UNCHANGED <<sessVars, callVars, readers, storage, rows, pc, op, key, session_arc,
                   calls, count0, result>>

\* After send_message has returned: typing_cancel.cancel() in both arms.
ReplyCancel(p) ==
    /\ task_pc[p] = "prompt"
    /\ pc[p] = "done"
    /\ typing' = [typing EXCEPT ![p] = IF @ = "running" THEN "cancelled" ELSE @]
    /\ task_pc' = [task_pc EXCEPT ![p] =
          IF result[p].ok /\ op[p] = "send" THEN "reply" ELSE "done"]
    /\ UNCHANGED <<inbound, task, outbox, plugVars, split, poll, tools, run, stream, ops, ioVars>>
    /\ UNCHANGED <<sessVars, callVars, readers, storage, rows, pc, op, key, session_arc,
                   calls, count0, result>>

\* The Ok arm: the OutboundMessage is built and given to send_message.
ReplySend(p) ==
    /\ task_pc[p] = "reply"
    /\ outbox' = Append(outbox, Outbound(p, task[p], FALSE, result[p].value))
    /\ task_pc' = [task_pc EXCEPT ![p] = "done"]
    /\ UNCHANGED <<inbound, task, typing, plugVars, split, poll, tools, run, stream, ops, ioVars>>
    /\ UNCHANGED <<sessVars, callVars, readers, storage, rows, pc, op, key, session_arc,
                   calls, count0, result>>

\* The typing loop sees the cancellation in its select and breaks.
TypingExit(p) ==
    /\ typing[p] = "cancelled"
    /\ typing' = [typing EXCEPT ![p] = "stopped"]
    /\ UNCHANGED <<inbound, task, task_pc, outbox, plugVars, split, poll, tools, run, stream, ops, ioVars>>
    /\ UNCHANGED <<sessVars, callVars, readers, storage, rows, pc, op, key, session_arc,
                   calls, count0, result>>

\* ------------------------------------------- the registry and the plugins
smVars == <<sessVars, callVars, readers, storage, rows, key, session_arc, count0>>

\* A caller that invokes the channel manager after the earlier calls returned.
Idle(p) == pc[p] = "idle" /\ \A q \in Procs : q < p => pc[q] = "done"

\* stop() of an external plugin starts with its RPCs, the others with the lock.
StopPc(pl) == IF channel_type(pl) = "external" THEN "rpc_stop" ELSE "stop"

\* register: insert under the write guard, whatever the map held.
Register(p, pl) ==
    /\ Idle(p)
    /\ LET id == channel_id(pl)
           prior == channels[id]
           after == [channels EXCEPT ![id] = pl]
       IN /\ channels' = after
          /\ reg' = [op |-> "register", id |-> id, by |-> p, before |-> channels,
                     after |-> after,
                     prior_running |-> prior \notin {0, pl} /\ plugin[prior].status = Running,
                     undoes |-> FALSE, orig |-> channels]
    /\ op' = [op EXCEPT ![p] = "register"]
    /\ callee' = [callee EXCEPT ![p] = pl]
    /\ result' = [result EXCEPT ![p] = Ok(<<>>)]
    /\ pc' = [pc EXCEPT ![p] = "done"]
    /\ UNCHANGED <<routeVars, split, poll, tools, run, stream, ops, ioVars, plugin, written, rpc_id, plugin0, smVars, calls>>

RemoveNothing(m, id) == m
Remove(m, id) == [m EXCEPT ![id] = 0]

\* unregister: remove under the write guard; stop the plugin if it is Running.
Unregister(p, id) ==
    /\ Idle(p)
    /\ LET ch == channels[id]
           after == Remove(channels, id)
           undoes == reg.op = "register" /\ reg.id = id
       IN /\ channels' = after
          /\ reg' = [op |-> "unregister", id |-> id, by |-> p, before |-> channels,
                     after |-> after, prior_running |-> FALSE, undoes |-> undoes,
                     orig |-> IF undoes THEN reg.before ELSE channels]
          /\ callee' = [callee EXCEPT ![p] = ch]
          /\ plugin0' = [plugin0 EXCEPT ![p] = IF ch # 0 THEN plugin[ch] ELSE NewPlugin]
          /\ IF ch # 0 /\ plugin[ch].status = Running
               THEN /\ pc' = [pc EXCEPT ![p] = StopPc(ch)]
                    /\ UNCHANGED result
               ELSE /\ pc' = [pc EXCEPT ![p] = "done"]
                    /\ result' = [result EXCEPT ![p] = Ok(<<ch # 0>>)]
    /\ op' = [op EXCEPT ![p] = "unregister"]
    /\ UNCHANGED <<routeVars, split, poll, tools, run, stream, ops, ioVars, plugin, written, rpc_id, smVars, calls>>

\* start_channel: look the plugin up and call its start().
StartChannel(p, id) ==
    /\ Idle(p)
    /\ op' = [op EXCEPT ![p] = "start_channel"]
    /\ IF channels[id] # 0
         THEN /\ callee' = [callee EXCEPT ![p] = channels[id]]
              /\ plugin0' = [plugin0 EXCEPT ![p] = plugin[channels[id]]]
              /\ pc' = [pc EXCEPT ![p] = "start"]
              /\ UNCHANGED result
         ELSE /\ result' = [result EXCEPT ![p] = Err(<<"Channel not found">>)]
              /\ pc' = [pc EXCEPT ![p] = "done"]
              /\ UNCHANGED <<callee, plugin0>>
    /\ UNCHANGED <<routeVars, split, poll, tools, run, stream, ops, ioVars, channels, plugin, written, reg, rpc_id, smVars, calls>>

\* stop_channel: look the plugin up and call its stop().
StopChannel(p, id) ==
    /\ Idle(p)
    /\ op' = [op EXCEPT ![p] = "stop_channel"]
    /\ IF channels[id] # 0
         THEN /\ callee' = [callee EXCEPT ![p] = channels[id]]
              /\ plugin0' = [plugin0 EXCEPT ![p] = plugin[channels[id]]]
              /\ pc' = [pc EXCEPT ![p] = StopPc(channels[id])]
              /\ UNCHANGED result
         ELSE /\ result' = [result EXCEPT ![p] = Err(<<"Channel not found">>)]
              /\ pc' = [pc EXCEPT ![p] = "done"]
              /\ UNCHANGED <<callee, plugin0>>
    /\ UNCHANGED <<routeVars, split, poll, tools, run, stream, ops, ioVars, channels, plugin, written, reg, rpc_id, smVars, calls>>

\* TelegramChannel::start, under the state lock from the first line to the
\* last.  authed: get_me succeeds.
TelegramStart(p, authed) ==
    /\ pc[p] = "start"
    /\ channel_type(callee[p]) = "telegram"
    /\ LET pl == callee[p]
       IN IF plugin[pl].status = Running
            THEN /\ result' = [result EXCEPT ![p] = Err(<<"already running">>)]
                 /\ UNCHANGED <<plugin, calls>>
            ELSE IF authed
              THEN /\ plugin' = [plugin EXCEPT ![pl].status = Running,
                                               ![pl].process = TRUE,
                                               ![pl].started = TRUE]
                   /\ calls' = [calls EXCEPT ![p] = @ \o <<"Starting", "spawn", "Running">>]
                   /\ result' = [result EXCEPT ![p] = Ok(<<>>)]
              ELSE /\ plugin' = [plugin EXCEPT ![pl].status = Error("Auth failed")]
                   /\ calls' = [calls EXCEPT ![p] = @ \o <<"Starting", "Error">>]
                   /\ result' = [result EXCEPT ![p] = Err(<<"Failed to authenticate">>)]
    /\ pc' = [pc EXCEPT ![p] = "done"]
    /\ UNCHANGED <<routeVars, split, poll, tools, run, stream, ops, ioVars, channels, written, reg, callee, rpc_id, plugin0, smVars, op>>

\* DiscordChannel::start, under the state lock.  built: the client builder
\* succeeds; when it fails `?` returns with the status left as it is.
DiscordStart(p, built) ==
    /\ pc[p] = "start"
    /\ channel_type(callee[p]) = "discord"
    /\ LET pl == callee[p]
       IN IF plugin[pl].status = Running
            THEN /\ result' = [result EXCEPT ![p] = Err(<<"already running">>)]
                 /\ UNCHANGED <<plugin, calls>>
            ELSE IF built
              THEN /\ plugin' = [plugin EXCEPT ![pl].status = Running,
                                               ![pl].process = TRUE,
                                               ![pl].started = TRUE]
                   /\ calls' = [calls EXCEPT ![p] = @ \o <<"Starting", "spawn", "Running">>]
                   /\ result' = [result EXCEPT ![p] = Ok(<<>>)]
              ELSE /\ plugin' = [plugin EXCEPT ![pl].status = Starting]
                   /\ calls' = [calls EXCEPT ![p] = @ \o <<"Starting">>]
                   /\ result' = [result EXCEPT ![p] = Err(<<"Failed to create Discord client">>)]
    /\ pc' = [pc EXCEPT ![p] = "done"]
    /\ UNCHANGED <<routeVars, split, poll, tools, run, stream, ops, ioVars, channels, written, reg, callee, rpc_id, plugin0, smVars, op>>

\* TelegramChannel::stop and DiscordChannel::stop: cancel or shut down the
\* listener if there is one, wait for it, set Stopped.
ListenerStop(p) ==
    /\ pc[p] = "stop"
    /\ LET pl == callee[p]
       IN /\ plugin' = [plugin EXCEPT ![pl].status = Stopped, ![pl].process = FALSE,
                                      ![pl].started = FALSE]
          /\ calls' = [calls EXCEPT ![p] = Append(@, "Stopped")]
    /\ result' = [result EXCEPT ![p] = Ok(IF op[p] = "unregister" THEN <<TRUE>> ELSE <<>>)]
    /\ pc' = [pc EXCEPT ![p] = "done"]
    /\ UNCHANGED <<routeVars, split, poll, tools, run, stream, ops, ioVars, channels, written, reg, callee, rpc_id, plugin0, smVars, op>>

\* ------------------------------------------------ ExternalChannelPlugin
\* The requests of the host (plugin_protocol.rs) and, for each, the await
\* points of send_rpc: before the state lock (rpc_), between the write and
\* the insert into the pending table (insert_), waiting for the reply (wait_).
Methods == {"initialize", "start", "stop", "shutdown", "send", "notify_processing"}

RpcPc ==
    [initialize |-> "rpc_initialize", start |-> "rpc_start", stop |-> "rpc_stop",
     shutdown |-> "rpc_shutdown", send |-> "rpc_send",
     notify_processing |-> "rpc_notify_processing"]
InsertPc ==
    [initialize |-> "insert_initialize", start |-> "insert_start", stop |-> "insert_stop",
     shutdown |-> "insert_shutdown", send |-> "insert_send",
     notify_processing |-> "insert_notify_processing"]
WaitPc ==
    [initialize |-> "wait_initialize", start |-> "wait_start", stop |-> "wait_stop",
     shutdown |-> "wait_shutdown", send |-> "wait_send",
     notify_processing |-> "wait_notify_processing"]

RpcPcs == {RpcPc[m] : m \in Methods}
InsertPcs == {InsertPc[m] : m \in Methods}
WaitPcs == {WaitPc[m] : m \in Methods}

Method(at) == CHOOSE m \in Methods : at \in {RpcPc[m], InsertPc[m], WaitPc[m]}

\* Where the call goes on after the RPC: start() and send() with `?`,
\* stop() and notify_processing() with `let _`.
AfterRpc ==
    [initialize |-> "rpc_start", start |-> "finish_start", stop |-> "rpc_shutdown",
     shutdown |-> "finish_stop", send |-> "finish_send",
     notify_processing |-> "finish_send"]

BestEffort(m) == m \in {"stop", "shutdown", "notify_processing"}

WriteLog ==
    [initialize |-> "write_initialize", start |-> "write_start", stop |-> "write_stop",
     shutdown |-> "write_shutdown", send |-> "write_send",
     notify_processing |-> "write_notify_processing"]
OkLog ==
    [initialize |-> "ok_initialize", start |-> "ok_start", stop |-> "ok_stop",
     shutdown |-> "ok_shutdown", send |-> "ok_send",
     notify_processing |-> "ok_notify_processing"]

\* state.process.is_some() and state.stdin.as_mut(): both are set by start()
\* and taken by stop() under one hold of the state lock.
ProcessNone(pl) == FALSE
ProcessIsSome(pl) == plugin[pl].process
StdinOpen(pl) == TRUE
StdinIsSome(pl) == plugin[pl].process

\* A caller that holds the plugin calls a method of the ChannelPlugin trait
\* on it, whatever other calls are in progress.
PluginOps == {"start", "stop", "send", "notify_processing"}

PluginCall(p, pl, o) ==
    /\ pc[p] = "idle"
    /\ \A q \in Procs : q < p => pc[q] # "idle"
    /\ channel_type(pl) = "external"
    /\ op' = [op EXCEPT ![p] = o]
    /\ callee' = [callee EXCEPT ![p] = pl]
    /\ plugin0' = [plugin0 EXCEPT ![p] = plugin[pl]]
    /\ pc' = [pc EXCEPT ![p] = IF o = "start" THEN "start" ELSE RpcPc[o]]
    /\ UNCHANGED <<routeVars, split, poll, tools, run, stream, ops, ioVars, channels, plugin, written, reg, rpc_id, smVars,
                   calls, result>>

\* start(), the part under the state lock: the already-running check, status
\* Starting, the spawn of the subprocess and of the reader task.
ExternalStart(p, spawned) ==
    /\ pc[p] = "start"
    /\ channel_type(callee[p]) = "external"
    /\ LET pl == callee[p]
       IN IF ProcessIsSome(pl)
            THEN /\ result' = [result EXCEPT ![p] = Err(<<"already running">>)]
                 /\ pc' = [pc EXCEPT ![p] = "done"]
                 /\ UNCHANGED <<plugin, calls, stdout, reader, handled>>
            ELSE IF spawned
              THEN /\ plugin' = [plugin EXCEPT ![pl].status = Starting,
                                               ![pl].process = TRUE]
                   /\ stdout' = [stdout EXCEPT ![pl] = <<>>]
                   /\ reader' = [reader EXCEPT ![pl] = "running"]
                   /\ handled' = [handled EXCEPT ![pl] = <<>>]
                   /\ calls' = [calls EXCEPT ![p] = @ \o <<"Starting", "spawn">>]
                   /\ pc' = [pc EXCEPT ![p] = "rpc_initialize"]
                   /\ UNCHANGED result
              ELSE /\ plugin' = [plugin EXCEPT ![pl].status = Error("Failed to spawn")]
                   /\ calls' = [calls EXCEPT ![p] = @ \o <<"Starting", "Error">>]
                   /\ result' = [result EXCEPT ![p] = Err(<<"Failed to spawn plugin">>)]
                   /\ pc' = [pc EXCEPT ![p] = "done"]
                   /\ UNCHANGED <<stdout, reader, handled>>
    /\ UNCHANGED <<routeVars, split, poll, tools, run, stream, ops, slot, channels, written, reg, callee, rpc_id, plugin0,
                   smVars, op>>

RpcFailedIgnored(p, m, e) ==
    /\ pc' = [pc EXCEPT ![p] = AfterRpc[m]]
    /\ UNCHANGED result

\* What a call does when an RPC of it has failed.
RpcFailed(p, m, e) ==
    IF BestEffort(m)
      THEN /\ pc' = [pc EXCEPT ![p] = AfterRpc[m]]
           /\ UNCHANGED result
      ELSE /\ pc' = [pc EXCEPT ![p] = "done"]
           /\ result' = [result EXCEPT ![p] = Err(e)]

\* JsonRpcMessage::request
Request(m, id) == [method |-> m, id |-> id]

\* state.next_id += 1
NextIdKept(id) == id
NextId(id) == id + 1

\* send_rpc, the part under the state lock: take the next id, then write the
\* request to stdin if there is one.
RpcWrite(p) ==
    /\ pc[p] \in RpcPcs
    /\ LET pl == callee[p]
           m == Method(pc[p])
           id == plugin[pl].next_id
       IN /\ plugin' = [plugin EXCEPT ![pl].next_id = NextId(id)]
          /\ IF StdinIsSome(pl)
               THEN /\ written' = [written EXCEPT ![pl] = Append(@, Request(m, id))]
                    /\ rpc_id' = [rpc_id EXCEPT ![p] = id]
                    /\ calls' = [calls EXCEPT ![p] = Append(@, WriteLog[m])]
                    /\ pc' = [pc EXCEPT ![p] = InsertPc[m]]
                    /\ UNCHANGED result
               ELSE /\ RpcFailed(p, m, <<"Plugin process not running">>)
                    /\ UNCHANGED <<written, rpc_id, calls>>
    /\ UNCHANGED <<routeVars, split, poll, tools, run, stream, ops, ioVars, channels, reg, callee, plugin0, smVars, op>>

\* send_rpc, after the state lock is released: make the oneshot channel and
\* insert its sender into the pending table under the id.
RpcInsert(p) ==
    /\ pc[p] \in InsertPcs
    /\ plugin' = [plugin EXCEPT ![callee[p]].pending = @ \cup {rpc_id[p]}]
    /\ slot' = [slot EXCEPT ![p] = "waiting"]
    /\ pc' = [pc EXCEPT ![p] = WaitPc[Method(pc[p])]]
    /\ UNCHANGED <<routeVars, split, poll, tools, run, stream, ops, stdout, reader, handled, channels, written, reg, callee,
                   rpc_id, plugin0, smVars, op, calls, result>>

\* send_rpc, the wait on the receiver: the reader task has sent a response
\* (with a result, with none, with an error), or the 30 s timeout fires while
\* the sender is still in the table, or the sender was dropped.
RpcOutcomes == {"ok", "error", "timeout", "closed"}

SlotOf ==
    [ok |-> {"result", "null"}, error |-> {"error"}, timeout |-> {"waiting"},
     closed |-> {"closed"}]

RpcReturn(p, outcome) ==
    /\ pc[p] \in WaitPcs
    /\ slot[p] \in SlotOf[outcome]
    /\ slot' = [slot EXCEPT ![p] = "none"]
    /\ LET m == Method(pc[p])
       IN IF outcome = "ok"
            THEN /\ calls' = [calls EXCEPT ![p] = Append(@, OkLog[m])]
                 /\ pc' = [pc EXCEPT ![p] = AfterRpc[m]]
                 /\ UNCHANGED result
            ELSE /\ RpcFailed(p, m, <<"RPC failed: ", outcome>>)
                 /\ UNCHANGED calls
    /\ UNCHANGED <<routeVars, split, poll, tools, run, stream, ops, stdout, reader, handled, channels, plugin, written, reg,
                   callee, rpc_id, plugin0, smVars, op>>

\* start(), after both RPCs: status Running.
ExternalStartFinish(p) ==
    /\ pc[p] = "finish_start"
    /\ plugin' = [plugin EXCEPT ![callee[p]].status = Running,
                                ![callee[p]].started = TRUE]
    /\ calls' = [calls EXCEPT ![p] = Append(@, "Running")]
    /\ result' = [result EXCEPT ![p] = Ok(<<>>)]
    /\ pc' = [pc EXCEPT ![p] = "done"]
    /\ UNCHANGED <<routeVars, split, poll, tools, run, stream, ops, ioVars, channels, written, reg, callee, rpc_id, plugin0,
                   smVars, op>>

\* pending.clear(): every sender in the table is dropped.
Clear(pend) == {}

\* stop(), after its RPCs: drop stdin, wait for or kill the subprocess,
\* abort the reader, status Stopped, clear the pending requests.
ExternalStopFinish(p) ==
    /\ pc[p] = "finish_stop"
    /\ LET pl == callee[p]
           dropped == plugin[pl].pending \ Clear(plugin[pl].pending)
       IN /\ plugin' = [plugin EXCEPT ![pl].status = Stopped,
                                      ![pl].process = FALSE,
                                      ![pl].pending = Clear(@),
                                      ![pl].started = FALSE]
          /\ stdout' = [stdout EXCEPT ![pl] = <<>>]
          /\ reader' = [reader EXCEPT ![pl] = IF @ = "none" THEN @ ELSE "aborted"]
          /\ slot' = [q \in Procs |->
                IF callee[q] = pl /\ slot[q] = "waiting" /\ rpc_id[q] \in dropped
                  THEN "closed" ELSE slot[q]]
    /\ calls' = [calls EXCEPT ![p] = Append(@, "Stopped")]
    /\ result' = [result EXCEPT ![p] = Ok(IF op[p] = "unregister" THEN <<TRUE>> ELSE <<>>)]
    /\ pc' = [pc EXCEPT ![p] = "done"]
    /\ UNCHANGED <<routeVars, split, poll, tools, run, stream, ops, handled, channels, written, reg, callee, rpc_id, plugin0,
                   smVars, op>>

\* send() and notify_processing(), after their RPC: Ok(()).
ExternalSendFinish(p) ==
    /\ pc[p] = "finish_send"
    /\ result' = [result EXCEPT ![p] = Ok(<<>>)]
    /\ pc' = [pc EXCEPT ![p] = "done"]
    /\ UNCHANGED <<routeVars, split, poll, tools, run, stream, ops, ioVars, channels, plugin, written, reg, callee, rpc_id,
                   plugin0, smVars, op, calls>>

\* ------------------------------------------- the subprocess and its reader
\* A line of the subprocess: a JSON object with "jsonrpc", with the id given
\* (0: no id) and with one of the members result, error, method; or a line
\* that is no JSON object (garbage).
Members == {"result", "error", "method", "garbage"}
Line(id, member) == [id |-> id, member |-> member]

\* serde_json::from_str::<JsonRpcResponse>: id, result and error are Option
\* fields and unknown members are ignored, so every object with "jsonrpc"
\* is a JsonRpcResponse.
ParsesAsResponse(l) == l.member # "garbage"

\* serde_json::from_str::<JsonRpcMessage>: "method" is required.
ParsesAsMessage(l) == l.member = "method"

\* What the receiver of the request gets from tx.send(resp).
Response(l) ==
    CASE l.member = "result" -> "result"
      [] l.member = "error" -> "error"
      [] OTHER -> "null"

\* The ids a line may carry: none (0), or any id up to the largest next_id.
MaxRpcId == StoppedPlugin.next_id + 2 * NumProcs
AllLines == {Line(id, m) : id \in 0..MaxRpcId, m \in Members}

\* The subprocess writes a line to its stdout.
SubprocessWrite(pl, l) ==
    /\ channel_type(pl) = "external"
    /\ plugin[pl].process
    /\ Len(stdout[pl]) + Len(handled[pl]) < MaxLines
    /\ l.id <= plugin[pl].next_id
    /\ l.member = "garbage" => l.id = 0
    /\ stdout' = [stdout EXCEPT ![pl] = Append(@, l)]
    /\ UNCHANGED <<routeVars, split, poll, tools, run, stream, ops, plugVars, reader, handled, slot, smVars, pc, op, calls, result>>

\* A subprocess that answers the requests whose callers wait for it, each
\* once, with a result or with an error.
Outstanding(pl) ==
    {rpc_id[q] : q \in {r \in Procs : callee[r] = pl /\ pc[r] \in InsertPcs \cup WaitPcs}}
Answered(pl) == {l.id : l \in Range(stdout[pl])} \cup {h.line.id : h \in Range(handled[pl])}

SubprocessReply(pl, l) ==
    /\ plugin[pl].process
    /\ l.member \in {"result", "error"}
    /\ l.id \in Outstanding(pl)
    /\ l.id \notin Answered(pl)
    /\ SubprocessWrite(pl, l)

\* A subprocess that writes any line: with the id of a request a caller
\* waits for, with no id, with an id nobody waits for.
SubprocessLine(pl, l) ==
    /\ plugin[pl].process
    /\ l.id \in Outstanding(pl) \cup {0, plugin[pl].next_id}
    /\ SubprocessWrite(pl, l)

PendingRemoveAny(pend, id) == IF id \in pend THEN pend \ {id} ELSE {}
PendingRemove(pend, id) == pend \ {id}

\* The reader task, one line: a line that parses as a response and has an
\* id takes the sender of that id out of the pending table and sends the
\* response through it; any other line is taken as a notification.
ReaderLine(pl) ==
    /\ reader[pl] = "running"
    /\ stdout[pl] # <<>>
    /\ LET l == Head(stdout[pl])
           pend == plugin[pl].pending
           isResponse == ParsesAsResponse(l) /\ l.id # 0
           known == isResponse /\ l.id \in pend
           owners == {q \in Procs : callee[q] = pl /\ rpc_id[q] = l.id /\ slot[q] = "waiting"}
           after == IF isResponse THEN PendingRemove(pend, l.id) ELSE pend
           what == IF known THEN "response"
                   ELSE IF isResponse THEN "unknown_id"
                   ELSE IF ParsesAsMessage(l) THEN "notification"
                   ELSE "parse_error"
       IN /\ stdout' = [stdout EXCEPT ![pl] = Tail(@)]
          /\ plugin' = [plugin EXCEPT ![pl].pending = after]
          /\ slot' = [q \in Procs |-> IF known /\ q \in owners THEN Response(l) ELSE slot[q]]
          /\ handled' = [handled EXCEPT ![pl] =
                Append(@, [line |-> l, what |-> what])]
    /\ UNCHANGED <<routeVars, split, poll, tools, run, stream, ops, reader, channels, written, reg, callee, rpc_id, plugin0,
                   smVars, pc, op, calls, result>>

\* ---------------------------------------------------------- specification
\* The manager under two concurrent callers: every operation, two keys; the
\* agent answers each prompt with one text delta.
Reply == <<"TextDelta">>
ListOrders == Orders(Keys) \cup Orders({"A"}) \cup Orders({"B"}) \cup {<<>>}

Next ==
    \E p \in 1..NumCallers :
        \/ \E o \in Ops, k \in Keys : Call(p, o, k)
        \/ EnsureSession(p)
        \/ CreateSessionFail(p)
        \/ CreateSession(p)
        \/ \E wrote \in BOOLEAN : PersistSession(p, wrote)
        \/ EnsureSessionGet(p)
        \/ \E auto \in BOOLEAN : LockAndPrompt(p, auto)
        \/ PromptOk(p, Reply)
        \/ PromptErr(p, Reply, Msg_Timeout)
        \/ \E hasId, piOk, actOk \in BOOLEAN : PostPrompt(p, hasId, piOk, actOk)
        \/ DeleteSession(p)
        \/ \E wrote \in BOOLEAN : DeleteSessionPersist(p, wrote)
        \/ GetHistory(p)
        \/ GetHistoryLocked(p)
        \/ \E order \in ListOrders : ListSessions(p, order)
        \/ ListSessionsLocked(p)

Spec == Init /\ [][Next]_vars

\* The locks of the manager under three concurrent callers: a manager made
\* by new() (no storage), compaction disabled, prompts that succeed or never
\* return.
InitLocks ==
    /\ InitManager
    /\ InitChannels
    /\ storage = FALSE
    /\ rows = [k \in Keys |-> NoRow]

NextLocks ==
    \E p \in Procs :
        \/ \E o \in Ops \ {"stream"}, k \in Keys : Call(p, o, k)
        \/ EnsureSession(p)
        \/ CreateSessionFail(p)
        \/ CreateSession(p)
        \/ \E wrote \in BOOLEAN : PersistSession(p, wrote)
        \/ EnsureSessionGet(p)
        \/ LockAndPrompt(p, FALSE)
        \/ PromptOk(p, Reply)
        \/ PostPrompt(p, TRUE, TRUE, TRUE)
        \/ DeleteSession(p)
        \/ GetHistory(p)
        \/ GetHistoryLocked(p)
        \/ \E order \in ListOrders : ListSessions(p, order)
        \/ ListSessionsLocked(p)

SpecLocks == InitLocks /\ [][NextLocks]_vars

\* The prompt path of send_message and send_message_streaming, called one
\* after the other on one key: a database that may hold a row of that key from an
\* earlier run, prompts that produce events and fail, storage writes that fail.
InitPrompt ==
    /\ InitManager
    /\ InitChannels
    /\ storage \in BOOLEAN
    /\ rows \in [Keys -> StoredRows]
    /\ rows["B"] = NoRow
    /\ (~storage => rows["A"] = NoRow)

\* What a prompt produces: nothing, or every kind of event with two deltas.
Scripts ==
    {<<>>, <<"TextDelta", "ToolStart", "TurnEnd", "ToolEnd", "Error", "TextDelta">>}

RetryErrMsgs == {Msg_ContextLen, Msg_Timeout}

NextPrompt ==
    \E p \in 1..NumCallers :
        \/ \E o \in SendOps : CallAfter(p, o, "A")
        \/ EnsureSession(p)
        \/ CreateSessionFail(p)
        \/ CreateSession(p)
        \/ \E wrote \in BOOLEAN : PersistSession(p, wrote)
        \/ EnsureSessionGet(p)
        \/ \E auto \in BOOLEAN : LockAndPrompt(p, auto)
        \/ \E script \in Scripts : PromptOk(p, script)
        \/ \E script \in Scripts, e \in ErrMsgs : PromptErr(p, script, e)
        \/ \E compacted \in BOOLEAN : EmergencyCompact(p, compacted)
        \/ \E script \in Scripts, e \in RetryErrMsgs : RetryErr(p, script, e)
        \/ \E piOk, actOk \in BOOLEAN : PostPrompt(p, TRUE, piOk, actOk)

SpecPrompt == InitPrompt /\ [][NextPrompt]_vars

\* The routing loop over a registry that holds a running external plugin
\* under "x" and, possibly, a running Telegram plugin under "y"; a manager
\* made by new(), prompts that succeed or fail with a timeout.
InitRoute ==
    /\ InitManager
    /\ storage = FALSE
    /\ rows = [k \in Keys |-> NoRow]
    /\ inbound = <<>>
    /\ task = [p \in Procs |-> NoMsg]
    /\ task_pc = [p \in Procs |-> "none"]
    /\ typing = [p \in Procs |-> "none"]
    /\ outbox = <<>>
    /\ \E tg \in BOOLEAN :
          /\ channels = [c \in ChannelIds |-> IF c = "x" THEN 1 ELSE IF tg THEN 2 ELSE 0]
          /\ plugin = [pl \in Plugins |->
                IF pl = 1 \/ (pl = 2 /\ tg)
                  THEN [NewPlugin EXCEPT !.status = Running, !.process = TRUE]
                  ELSE NewPlugin]
    /\ written = [pl \in Plugins |-> <<>>]
    /\ reg = NoReg
    /\ callee = [p \in Procs |-> 0]
    /\ rpc_id = [p \in Procs |-> 0]
    /\ plugin0 = [p \in Procs |-> NewPlugin]
    /\ InitIo
    /\ split = NoSplit
    /\ poll = NoPoll
    /\ tools = NoTools
    /\ ops = NoOps
    /\ stream = NoStream
    /\ run = NoRun

NextRoute ==
    \/ \E pl \in Plugins, m \in InboundMsgs : InboundSend(pl, m)
    \/ \E p \in 1..NumCallers :
          \/ Recv(p)
          \/ RouteTask(p)
          \/ CommandReply(p)
          \/ ReplyCancel(p)
          \/ ReplySend(p)
          \/ TypingExit(p)
          \/ EnsureSession(p)
          \/ CreateSessionFail(p)
          \/ CreateSession(p)
          \/ \E wrote \in BOOLEAN : PersistSession(p, wrote)
          \/ EnsureSessionGet(p)
          \/ LockAndPrompt(p, FALSE)
          \/ PromptOk(p, Reply)
          \/ PromptErr(p, Reply, Msg_Timeout)
          \/ PostPrompt(p, TRUE, TRUE, TRUE)
          \/ DeleteSession(p)

SpecRoute == InitRoute /\ [][NextRoute]_vars

\* The channel manager and its plugins, called by one caller after the
\* other: an empty registry, or one that holds the external or the Discord
\* plugin under "x" and the Telegram plugin under "y", none started yet.
InitChannelCalls ==
    /\ InitManager
    /\ storage = FALSE
    /\ rows = [k \in Keys |-> NoRow]
    /\ inbound = <<>>
    /\ task = [p \in Procs |-> NoMsg]
    /\ task_pc = [p \in Procs |-> "none"]
    /\ typing = [p \in Procs |-> "none"]
    /\ outbox = <<>>
    /\ channels \in {NoChannels} \cup
          {[c \in ChannelIds |-> IF c = "x" THEN pl ELSE 2] : pl \in {1, 3}}
    /\ plugin = [pl \in Plugins |-> NewPlugin]
    /\ written = [pl \in Plugins |-> <<>>]
    /\ reg = NoReg
    /\ callee = [p \in Procs |-> 0]
    /\ rpc_id = [p \in Procs |-> 0]
    /\ plugin0 = [p \in Procs |-> NewPlugin]
    /\ InitIo
    /\ split = NoSplit
    /\ poll = NoPoll
    /\ tools = NoTools
    /\ ops = NoOps
    /\ stream = NoStream
    /\ run = NoRun

NextChannels ==
    \E p \in Procs :
        \/ \E pl \in Plugins : Register(p, pl)
        \/ \E id \in ChannelIds : Unregister(p, id)
        \/ \E id \in ChannelIds : StartChannel(p, id)
        \/ \E id \in ChannelIds : StopChannel(p, id)
        \/ \E authed \in BOOLEAN : TelegramStart(p, authed)
        \/ \E built \in BOOLEAN : DiscordStart(p, built)
        \/ ListenerStop(p)
        \/ \E spawned \in BOOLEAN : ExternalStart(p, spawned)
        \/ RpcWrite(p)
        \/ RpcInsert(p)
        \/ \E outcome \in RpcOutcomes : RpcReturn(p, outcome)
        \/ ExternalStartFinish(p)
        \/ ExternalStopFinish(p)
        \/ \E pl \in Plugins :
              \/ \E l \in AllLines : SubprocessReply(pl, l)
              \/ ReaderLine(pl)

SpecChannels == InitChannelCalls /\ [][NextChannels]_vars

\* The external plugin under concurrent callers: start(), stop(), send() and
\* notify_processing() in any interleaving, on a plugin that an earlier
\* start() has made Running or that was started and stopped before, with a
\* subprocess that answers the requests it is sent.
PastPlugin ==
    [running |-> RunningPlugin, stopped |-> StoppedPlugin]
PastWritten ==
    [running |-> <<Request("initialize", 1), Request("start", 2)>>,
     stopped |-> <<Request("initialize", 1), Request("start", 2), Request("stop", 3),
                   Request("shutdown", 4)>>]

InitRpc ==
    /\ InitManager
    /\ storage = FALSE
    /\ rows = [k \in Keys |-> NoRow]
    /\ inbound = <<>>
    /\ task = [p \in Procs |-> NoMsg]
    /\ task_pc = [p \in Procs |-> "none"]
    /\ typing = [p \in Procs |-> "none"]
    /\ outbox = <<>>
    /\ channels = [c \in ChannelIds |-> IF c = "x" THEN 1 ELSE 0]
    /\ \E past \in DOMAIN PastPlugin :
          /\ plugin = [pl \in Plugins |-> IF pl = 1 THEN PastPlugin[past] ELSE NewPlugin]
          /\ written = [pl \in Plugins |-> IF pl = 1 THEN PastWritten[past] ELSE <<>>]
    /\ reg = NoReg
    /\ callee = [p \in Procs |-> 0]
    /\ rpc_id = [p \in Procs |-> 0]
    /\ plugin0 = [p \in Procs |-> NewPlugin]
    /\ InitIo
    /\ split = NoSplit
    /\ poll = NoPoll
    /\ tools = NoTools
    /\ ops = NoOps
    /\ stream = NoStream
    /\ run = NoRun

NextRpc ==
    \/ \E p \in 1..NumCallers :
          \/ \E pl \in Plugins, o \in PluginOps : PluginCall(p, pl, o)
          \/ \E spawned \in BOOLEAN : ExternalStart(p, spawned)
          \/ RpcWrite(p)
          \/ RpcInsert(p)
          \/ \E outcome \in RpcOutcomes : RpcReturn(p, outcome)
          \/ ExternalStartFinish(p)
          \/ ExternalStopFinish(p)
          \/ ExternalSendFinish(p)
    \/ \E pl \in Plugins :
          \/ \E l \in AllLines : SubprocessReply(pl, l)
          \/ ReaderLine(pl)

SpecRpc == InitRpc /\ [][NextRpc]_vars

\* The manager called by one caller after the other on one key, with or
\* without storage, over a database that may hold a row of the key from an
\* earlier run; storage writes may fail.
StoreOps == {"create", "delete", "send", "has"}

NextSeq ==
    \E p \in Procs :
        \/ \E o \in StoreOps : CallAfter(p, o, "A")
        \/ EnsureSession(p)
        \/ CreateSessionFail(p)
        \/ CreateSession(p)
        \/ \E wrote \in BOOLEAN : PersistSession(p, wrote)
        \/ EnsureSessionGet(p)
        \/ LockAndPrompt(p, FALSE)
        \/ PromptOk(p, Reply)
        \/ PromptErr(p, Reply, Msg_Timeout)
        \/ \E piOk, actOk \in BOOLEAN : PostPrompt(p, TRUE, piOk, actOk)
        \/ DeleteSession(p)
        \/ \E wrote \in BOOLEAN : DeleteSessionPersist(p, wrote)
        \/ HasSession(p)

SpecSeq == InitPrompt /\ [][NextSeq]_vars

\* The manager with storage over an empty database, under two concurrent
\* callers that create, use and delete the session of one key; no storage
\* write fails.
InitStore ==
    /\ InitManager
    /\ InitChannels
    /\ storage = TRUE
    /\ rows = [k \in Keys |-> NoRow]

NextStore ==
    \E p \in 1..NumCallers :
        \/ \E o \in StoreOps : Call(p, o, "A")
        \/ EnsureSession(p)
        \/ CreateSessionFail(p)
        \/ CreateSession(p)
        \/ PersistSession(p, TRUE)
        \/ EnsureSessionGet(p)
        \/ LockAndPrompt(p, FALSE)
        \/ PromptOk(p, Reply)
        \/ PromptErr(p, Reply, Msg_Timeout)
        \/ PostPrompt(p, TRUE, TRUE, TRUE)
        \/ DeleteSession(p)
        \/ DeleteSessionPersist(p, TRUE)
        \/ HasSession(p)

SpecStore == InitStore /\ [][NextStore]_vars

\* A restart: a new manager over the table an earlier run has left, with
\* restore_sessions as its first call and has_session calls after it; the
\* creation of a session, the upsert of its row, list_sessions and the
\* reload of a history may each fail.
InitRestore ==
    /\ InitManager
    /\ InitChannels
    /\ storage \in BOOLEAN
    /\ rows \in [Keys -> RestartRows]
    /\ (~storage => rows = [k \in Keys |-> NoRow])

NextRestore ==
    \/ \E p \in {1} : CallAfter(p, "restore", "A")
    \/ \E p \in Procs \ {1} : \E k \in Keys : CallAfter(p, "has", k)
    \/ \E p \in Procs :
        \/ \E order \in Orders(Keys) \cup Orders({"A"}) \cup Orders({"B"}) \cup Orders({}) :
               \E listOk \in BOOLEAN : RestoreSessions(p, order, listOk)
        \/ CreateSessionFail(p)
        \/ CreateSession(p)
        \/ \E wrote \in BOOLEAN : PersistSession(p, wrote)
        \/ \E loaded \in BOOLEAN : RestoreHistory(p, loaded)
        \/ HasSession(p)

SpecRestore == InitRestore /\ [][NextRestore]_vars

\* split_message called once, on any text of at most MaxText bytes with any
\* max_len from 1 to MaxMaxLen.
InitSplit ==
    /\ InitManager
    /\ InitPlugins
    /\ storage = FALSE
    /\ rows = [k \in Keys |-> NoRow]
    /\ split \in {[text |-> t, max_len |-> m, chunks |-> <<>>, returned |-> FALSE] :
                    t \in Texts, m \in 1..MaxMaxLen}
    /\ poll = NoPoll
    /\ tools = NoTools
    /\ ops = NoOps
    /\ stream = NoStream
    /\ run = NoRun

NextSplit == SplitMessage

\* Two send_message calls whose prompts execute at most one gateway tool
\* each, and the gateway-ops loop that serves them; no storage, every prompt
\* returns Ok once its tool has returned.  Whatever can take a step is
\* scheduled.
PromptCall(p, k) == Call(p, "send", k)

ToolPromptOk(p) ==
    /\ ops.tool[p] \in {"none", "returned"}
    /\ PromptOk(p, Reply)

InitOps ==
    /\ InitManager
    /\ InitChannels
    /\ storage = FALSE
    /\ rows = [k \in Keys |-> NoRow]

NextOps ==
    \/ \E p \in 1..NumCallers :
          \/ \E k \in Keys : PromptCall(p, k)
          \/ \E kind \in GatewayOps, k \in Keys : ToolCall(p, kind, k)
          \/ ToolReturn(p)
    \/ OpsRecv
    \/ OpsReply
    \/ \E p \in Procs :
          \/ EnsureSession(p)
          \/ CreateSession(p)
          \/ PersistSession(p, TRUE)
          \/ EnsureSessionGet(p)
          \/ LockAndPrompt(p, FALSE)
          \/ ToolPromptOk(p)
          \/ PostPrompt(p, TRUE, TRUE, TRUE)
          \/ GetHistory(p)
          \/ GetHistoryLocked(p)
          \/ \E order \in ListOrders : ListSessions(p, order)
          \/ ListSessionsLocked(p)

SpecOps == InitOps /\ [][NextOps]_vars

SpecOpsFair == SpecOps /\ WF_vars(NextOps)

\* Two messages of a channel whose plugin streams, routed to one session by
\* one routing task each; the session may be deleted between them.  No storage;
\* a prompt produces events and succeeds or fails, with and without the
\* emergency compaction.  The send_streaming tasks and the routing tasks are
\* scheduled whenever they can take a step.
StreamErrMsgs == {Msg_ContextLen, Msg_Timeout}
\* manager.send_message_streaming_with_attachments(..., event_tx).
StreamCall(p, k) ==
    /\ stream[p].route = "spawned"
    /\ Call(p, "stream", k)

DeleteCall(p) == stream[p].route = "none" /\ CallAfter(p, "delete", "A")

InitStream ==
    /\ InitManager
    /\ InitChannels
    /\ storage = FALSE
    /\ rows = [k \in Keys |-> NoRow]

NextStream ==
    \E p \in 1..NumCallers :
        \/ StreamSpawn(p)
        \/ StreamCall(p, "A")
        \/ DeleteCall(p)
        \/ EnsureSession(p)
        \/ CreateSessionFail(p)
        \/ CreateSession(p)
        \/ PersistSession(p, TRUE)
        \/ EnsureSessionGet(p)
        \/ LockAndPrompt(p, FALSE)
        \/ PromptOk(p, Reply)
        \/ \E e \in StreamErrMsgs : PromptErr(p, Reply, e)
        \/ \E compacted \in BOOLEAN : EmergencyCompact(p, compacted)
        \/ \E e \in StreamErrMsgs : RetryErr(p, Reply, e)
        \/ PostPrompt(p, TRUE, TRUE, TRUE)
        \/ DeleteSession(p)
        \/ StreamResult(p)
        \/ StreamJoin(p)
        \/ DisplayRecv(p)
        \/ DisplayClosed(p)

StreamFairness ==
    \A p \in 1..NumCallers :
        /\ WF_vars(StreamResult(p))
        /\ WF_vars(StreamJoin(p))
        /\ WF_vars(DisplayRecv(p))
        /\ WF_vars(DisplayClosed(p))

SpecStream == InitStream /\ [][NextStream]_vars

SpecStreamFair == SpecStream /\ StreamFairness

\* Two runs of the gateway over one database, empty at first: in the first
\* the session of one key is created, used and deleted by one call after the
\* other, create_session only when the key is not in the map, so that a
\* session leaves the map only by delete_session; the second starts with
\* restore_sessions.  No storage write fails.
FirstRunCall(p, o) ==
    /\ run.n = 1
    /\ o = "create" => sessions["A"] = 0
    /\ CallAfter(p, o, "A")
RestoreCall(p) == run.n = 2 /\ CallAfter(p, "restore", "A")
SecondRunCall(p, k) == run.n = 2 /\ CallAfter(p, "has", k)

InitRestart ==
    /\ InitManager
    /\ InitChannels
    /\ storage = TRUE
    /\ rows = [k \in Keys |-> NoRow]

NextRestart ==
    \/ \E p \in Procs : \E o \in StoreOps : FirstRunCall(p, o)
    \/ Restart
    \/ \E p \in {1} : RestoreCall(p)
    \/ \E p \in Procs \ {1} : \E k \in Keys : SecondRunCall(p, k)
    \/ \E p \in Procs :
        \/ EnsureSession(p)
        \/ CreateSessionFail(p)
        \/ CreateSession(p)
        \/ PersistSession(p, TRUE)
        \/ EnsureSessionGet(p)
        \/ LockAndPrompt(p, FALSE)
        \/ PromptOk(p, Reply)
        \/ PromptErr(p, Reply, Msg_Timeout)
        \/ PostPrompt(p, TRUE, TRUE, TRUE)
        \/ DeleteSession(p)
        \/ DeleteSessionPersist(p, TRUE)
        \/ HasSession(p)
        \/ \E order \in Orders({"A"}) \cup Orders({}) : RestoreSessions(p, order, TRUE)
        \/ \E loaded \in BOOLEAN : RestoreHistory(p, loaded)

SpecRestart == InitRestart /\ [][NextRestart]_vars

\* A Telegram channel that start() has left Running, with its polling task
\* at the head of the loop and an empty inbound queue; stop() is called at
\* any moment.  getUpdates may never complete; the task's own steps, the
\* downloads and the receiving end of the queue are not delayed for ever.
InitPoll ==
    /\ InitManager
    /\ InitPlugins
    /\ storage = FALSE
    /\ rows = [k \in Keys |-> NoRow]
    /\ split = NoSplit
    /\ poll = [NoPoll EXCEPT !.pc = "top"]
    /\ tools = NoTools
    /\ ops = NoOps
    /\ stream = NoStream
    /\ run = NoRun

NextPoll ==
    \/ PollTop
    \/ PollCancelled
    \/ \E n \in 0..MaxBatch : PollUpdatesOk(n)
    \/ PollUpdatesErr
    \/ PollSleepDone
    \/ \E kind \in UpdateKinds : PollBatch(kind)
    \/ \E forward \in BOOLEAN : PollDownload(forward)
    \/ PollSend
    \/ InboundRecv
    \/ TelegramStopCancel
    \/ TelegramStopJoin

SpecPoll == InitPoll /\ [][NextPoll]_vars

PollFairness ==
    /\ WF_vars(PollTop)
    /\ WF_vars(PollCancelled)
    /\ WF_vars(\E kind \in UpdateKinds : PollBatch(kind))
    /\ WF_vars(\E forward \in BOOLEAN : PollDownload(forward))
    /\ WF_vars(PollSend)
    /\ WF_vars(InboundRecv)
    /\ WF_vars(TelegramStopJoin)

SpecPollFair == SpecPoll /\ PollFairness

\* An agent's tool configuration and the global deny list, drawn from names
\* of tools and of groups; one session is created.
ListNames == {"read", "bash", "session_status", "group:fs"}

Lists(n) == {l \in SUBSET ListNames : Cardinality(l) <= n}

InitTools ==
    /\ InitManager
    /\ InitPlugins
    /\ storage = FALSE
    /\ rows = [k \in Keys |-> NoRow]
    /\ split = NoSplit
    /\ poll = NoPoll
    /\ ops = NoOps
    /\ stream = NoStream
    /\ run = NoRun
    /\ tools \in {[NoTools EXCEPT !.profile = pr, !.allow = al, !.also_allow = aa,
                                  !.deny = de, !.global_deny = gd, !.coding = co,
                                  !.ops_tx = tx] :
                    pr \in Profiles, al \in Lists(MaxList), aa \in Lists(MaxExtra),
                    de \in Lists(MaxList), gd \in Lists(MaxExtra), co \in CodingSets,
                    tx \in BOOLEAN}

NextTools == CreateSessionTools

SpecTools == InitTools /\ [][NextTools]_vars

SpecSplit == InitSplit /\ [][NextSplit]_vars

\* The reader task of a Running external plugin whose subprocess may write
\* any line: a reply to a request it was sent, a reply with an id nobody
\* waits for, a request or a notification of its own, garbage; the callers
\* send messages and typing notices.
InitReader ==
    /\ InitManager
    /\ storage = FALSE
    /\ rows = [k \in Keys |-> NoRow]
    /\ inbound = <<>>
    /\ task = [p \in Procs |-> NoMsg]
    /\ task_pc = [p \in Procs |-> "none"]
    /\ typing = [p \in Procs |-> "none"]
    /\ outbox = <<>>
    /\ channels = [c \in ChannelIds |-> IF c = "x" THEN 1 ELSE 0]
    /\ plugin = [pl \in Plugins |-> IF pl = 1 THEN RunningPlugin ELSE NewPlugin]
    /\ written = [pl \in Plugins |-> IF pl = 1 THEN PastWritten.running ELSE <<>>]
    /\ reg = NoReg
    /\ callee = [p \in Procs |-> 0]
    /\ rpc_id = [p \in Procs |-> 0]
    /\ plugin0 = [p \in Procs |-> NewPlugin]
    /\ InitIo
    /\ split = NoSplit
    /\ poll = NoPoll
    /\ tools = NoTools
    /\ ops = NoOps
    /\ stream = NoStream
    /\ run = NoRun

NextReader ==
    \/ \E p \in 1..NumCallers :
          \/ \E pl \in Plugins, o \in {"send", "notify_processing"} : PluginCall(p, pl, o)
          \/ RpcWrite(p)
          \/ RpcInsert(p)
          \/ \E outcome \in RpcOutcomes : RpcReturn(p, outcome)
          \/ ExternalSendFinish(p)
    \/ \E pl \in Plugins :
          \/ \E l \in AllLines : SubprocessLine(pl, l)
          \/ ReaderLine(pl)

SpecReader == InitReader /\ [][NextReader]_vars

\* ================================================================= claims
Count(seq, x) == Cardinality({i \in DOMAIN seq : seq[i] = x})
Returned(p) == pc[p] = "done" /\ result[p].done
Prompting(p) == pc[p] \in {"run1", "run2"}
OnlySends == \A q \in Procs : op[q] \in SendOps \cup {"none"}

\* C1: for every interleaving of send_message / send_message_streaming
\* calls, at most one agent prompt per session key is executing at any time.
C1_OnePromptPerKey ==
    OnlySends =>
        \A k \in Keys : Cardinality({p \in Procs : Prompting(p) /\ key[p] = k}) <= 1

\* C2: under concurrent send_message calls on a key, the history of the
\* session held under that key has one complete, contiguous user/assistant
\* exchange for every call that returned Ok; none is missing.
ExchangeIn(h, p) ==
    \E i \in 1..(Len(h) - 1) : h[i] = UserMsg(p) /\ h[i + 1] = AssistantMsg(p)

C2_HistorySerialised ==
    OnlySends =>
        \A p \in Procs :
            (Returned(p) /\ result[p].ok) =>
                /\ sessions[key[p]] # 0
                /\ ExchangeIn(messages[sessions[key[p]]], p)

\* C3: a prompt in flight on one key never keeps a send_message on another
\* key from obtaining its session and issuing its prompt: no such call
\* waits, directly or through other calls, for the call that runs the prompt.
WaitsFor(p, r) ==
    \/ pc[p] \in {"create", "delete"} /\ r \in readers
    \/ pc[p] \in {"lock", "history_lock"} /\ mutex[session_arc[p]] = r
    \/ pc[p] = "list_lock" /\ mutex[sessions[Head(todo[p])]] = r

RECURSIVE WaitsWithin(_, _, _)
WaitsWithin(p, r, n) ==
    \/ WaitsFor(p, r)
    \/ n > 1 /\ \E q \in Procs \ {p, r} : WaitsFor(p, q) /\ WaitsWithin(q, r, n - 1)

C3_SessionsIndependent ==
    \A p, r \in Procs :
        (/\ op[p] \in SendOps
         /\ pc[p] \in {"ensure", "create", "persist", "reget", "lock"}
         /\ Prompting(r)
         /\ key[r] # key[p])
            => ~WaitsWithin(p, r, NumProcs)

\* C4: on a manager with storage, a send_message call that no other call
\* overlaps leaves message_count of its key increased by exactly 1 when it
\* returns Ok and unchanged when it returns Err.
C4_MessageCount ==
    \A p \in Procs :
        (/\ storage
         /\ op[p] = "send"
         /\ Returned(p)
         /\ \A q \in Procs : q > p => pc[q] = "idle")
            => rows[key[p]].message_count = count0[p] + (IF result[p].ok THEN 1 ELSE 0)

\* What the contract calls a context-overflow error, stated on the message.
OverflowError(e) ==
    Contains(e, E_TooLong) \/ Contains(e, E_Context) \/ Contains(e, E_Token)

Compactions(p) == Count(calls[p], "compact_none_ok") + Count(calls[p], "compact_none_err")
Prompts(p) == Count(calls[p], "prompt")
FirstFailed(p) == op[p] \in SendOps /\ prompt_result[p] # <<>>

\* C5 as written: when the first prompt of a call fails with an error that
\* contains "too long", "context" or "token", compact(None) is called
\* exactly once and the prompt is retried exactly once; with any other
\* error there is neither compaction nor retry.
C5_CompactAndRetryOnce ==
    \A p \in Procs :
        (Returned(p) /\ FirstFailed(p)) =>
            IF OverflowError(prompt_result[p])
              THEN Compactions(p) = 1 /\ Prompts(p) = 2
              ELSE Compactions(p) = 0 /\ Prompts(p) = 1

\* C5 amended: after such an error compact(None) is called exactly once;
\* the prompt is retried exactly once when that compaction succeeds and not
\* at all when it fails; nothing further is attempted.  With any other
\* error there is neither compaction nor retry.
C5_CompactOnceRetryIfCompacted ==
    \A p \in Procs :
        /\ Compactions(p) <= 1 /\ Prompts(p) <= 2
        /\ (Returned(p) /\ FirstFailed(p)) =>
              IF OverflowError(prompt_result[p])
                THEN /\ Compactions(p) = 1
                     /\ Prompts(p) = 1 + Count(calls[p], "compact_none_ok")
                ELSE Compactions(p) = 0 /\ Prompts(p) = 1

C5_Witness ==
    \E p, q \in Procs :
        /\ Returned(p) /\ FirstFailed(p) /\ OverflowError(prompt_result[p])
        /\ Prompts(p) = 2 /\ ~result[p].ok
        /\ Returned(q) /\ FirstFailed(q) /\ ~OverflowError(prompt_result[q])

\* C6: when the first prompt fails with a context overflow and the retry
\* succeeds, the returned text (and Done.full_response) holds deltas of the
\* retry only.
C6_RetryTextOnly ==
    \A p \in Procs :
        (Returned(p) /\ result[p].ok /\ FirstFailed(p)) =>
            /\ \A i \in DOMAIN result[p].value : result[p].value[i].att = 2
            /\ \A i \in DOMAIN events[p] :
                  events[p][i].type = "Done" =>
                      \A j \in DOMAIN events[p][i].full_response :
                          events[p][i].full_response[j].att = 2

\* C7: if the emergency compaction fails, the call returns the error of the
\* first prompt, the prompt is not retried, and neither the activity
\* update nor the pi_session_id capture is performed.
C7_CompactionFailure ==
    \A p \in Procs :
        (Returned(p) /\ Count(calls[p], "compact_none_err") > 0) =>
            /\ result[p] = Err(<<"Prompt error: ", prompt_result[p]>>)
            /\ prompt_result[p] # <<>>
            /\ Prompts(p) = 1
            /\ Count(calls[p], "update_session_activity") = 0
            /\ Count(calls[p], "save_pi_session_id") = 0

C7_Witness ==
    \E p \in Procs :
        /\ Returned(p) /\ Count(calls[p], "compact_none_err") > 0
        /\ storage /\ rows[key[p]].present

\* C8: every send_message_streaming call leaves on its event sender a
\* sequence that ends with its one terminal event, whether it returns Ok or
\* Err.
Terminal(ev) == ev.type \in {"Done", "Error"}

C8_OneTerminalEvent ==
    \A p \in Procs :
        (op[p] = "stream" /\ Returned(p)) =>
            /\ events[p] # <<>>
            /\ Terminal(events[p][Len(events[p])])
            /\ \A i \in 1..(Len(events[p]) - 1) : events[p][i].type # "Done"

\* C9: within one streaming prompt the text deltas reach the sender in the
\* order the agent produced them, Done comes after every other event of
\* the prompt, and Done.full_response is the concatenation of the deltas
\* sent before it.
Before(a, b) == a.att < b.att \/ (a.att = b.att /\ a.seq < b.seq)

IsTextDelta(ev) == ev.type = "TextDelta"

DeltasBefore(evs, n) ==
    LET sent == SelectSeq(SubSeq(evs, 1, n - 1), IsTextDelta)
    IN [k \in 1..Len(sent) |-> sent[k].src]

C9_StreamOrder ==
    \A p \in Procs :
        op[p] = "stream" =>
            /\ \A i, j \in DOMAIN events[p] :
                  (/\ i < j
                   /\ events[p][i].type = "TextDelta" /\ events[p][j].type = "TextDelta"
                   /\ events[p][i].src.by = p /\ events[p][j].src.by = p)
                      => Before(events[p][i].src, events[p][j].src)
            /\ \A i \in DOMAIN events[p] :
                  events[p][i].type = "Done" =>
                      /\ \A j \in DOMAIN events[p] :
                            (events[p][j].type # "Done" /\ events[p][j].src.by = p) => j < i
                      /\ events[p][i].full_response = DeltasBefore(events[p], i)

C9_Witness ==
    \E p \in Procs :
        /\ op[p] = "stream" /\ Returned(p) /\ result[p].ok
        /\ Len(result[p].value) >= 4
        /\ \E i \in DOMAIN events[p] : events[p][i].type = "Error"

\* C10: once a send_message_streaming call has returned, Ok or Err, no
\* event of a later prompt on the session reaches its event sender or its
\* collected text.
C10_StaleSubscriberInactive ==
    \A p \in Procs :
        op[p] = "stream" =>
            /\ \A i \in DOMAIN events[p] :
                  events[p][i].type # "Done" => events[p][i].src.by = p
            /\ \A i \in DOMAIN response_text[p] : response_text[p][i].by = p

\* What the routing task of p has given to ChannelManager::send_message.
Sent(p) == SelectSeq(outbox, LAMBDA o : o.by = p)
Position(seq, x) == CHOOSE i \in DOMAIN seq : seq[i] = x
Routed(p) == task_pc[p] = "done"

\* C11: when the loop received m1 before m2, both for the same session key,
\* and the prompts of both were issued on the session of that key, the task
\* of m1 acquired the session lock first.
C11_ReceiveOrder ==
    \A p, q \in Procs :
        (/\ p < q
         /\ key[p] = key[q]
         /\ Prompts(p) > 0 /\ Prompts(q) > 0
         /\ session_arc[p] = session_arc[q])
            => Position(subscribers[session_arc[p]], p)
                   < Position(subscribers[session_arc[q]], q)

\* C12: a message whose command is new, reset, help or start issues no
\* prompt and gives exactly one fixed reply to its sender on its channel,
\* for new and reset after delete_session has returned; a message with any
\* other command is dispatched to the agent.
FixedCommands == {"new", "reset", "help", "start"}

C12_Commands ==
    \A p \in Procs :
        /\ task[p].command \in FixedCommands =>
              /\ Prompts(p) = 0
              /\ Len(Sent(p)) <= 1
              /\ \A i \in DOMAIN Sent(p) :
                    /\ Sent(p)[i].fixed
                    /\ Sent(p)[i].channel_id = task[p].channel_id
                    /\ Sent(p)[i].recipient_id = task[p].sender_id
                    /\ task[p].command \in {"new", "reset"} =>
                          (op[p] = "delete" /\ pc[p] = "done")
              /\ Routed(p) => Len(Sent(p)) = 1
        /\ (task[p].command \in Commands \ FixedCommands /\ Routed(p)) =>
              op[p] \in SendOps

\* C13: a message with empty text and no attachment creates no session
\* and issues no prompt.
C13_EmptyMessage ==
    \A p \in Procs :
        (task_pc[p] # "none" /\ task[p].text = "" /\ task[p].attachments = 0) =>
            /\ pc[p] \notin {"persist", "reget"}
            /\ Prompts(p) = 0

\* C14: for a message that is not a command, on the non-streaming path:
\* when send_message returned Ok, exactly one OutboundMessage is dispatched,
\* on the channel of the message, to its sender, with the returned text,
\* and only after the typing loop was cancelled; when it returned Err, the
\* typing loop is cancelled and nothing is dispatched.
C14_Reply ==
    \A p \in Procs :
        (task[p].command \notin {"new", "help", "start"} /\ op[p] = "send") =>
            /\ Len(Sent(p)) <= 1
            /\ \A i \in DOMAIN Sent(p) :
                  /\ Returned(p) /\ result[p].ok
                  /\ Sent(p)[i] = Outbound(p, task[p], FALSE, result[p].value)
                  /\ typing[p] # "running"
            /\ Routed(p) =>
                  /\ typing[p] # "running"
                  /\ Len(Sent(p)) = IF result[p].ok THEN 1 ELSE 0

C14_Witness ==
    \E p, q \in Procs :
        /\ Routed(p) /\ op[p] = "send" /\ result[p].ok
        /\ typing[p] = "stopped" /\ Len(Sent(p)) = 1
        /\ Routed(q) /\ op[q] = "send" /\ ~result[q].ok /\ typing[q] = "cancelled"

\* The call that was made last.
Latest(p) == pc[p] # "idle" /\ \A q \in Procs : q > p => pc[q] = "idle"
Before2(seq, a, b) ==
    \E i, j \in DOMAIN seq : i < j /\ seq[i] = a /\ seq[j] = b
Writes(p) == {i \in DOMAIN calls[p] : calls[p][i] \in Range(WriteLog)}

\* C15: the registry holds at most one plugin per channel id, each under
\* its own id, and register never leaves a plugin it replaced Running.
C15_RegisterStopsPrior ==
    /\ \A c \in ChannelIds : channels[c] # 0 => channel_id(channels[c]) = c
    /\ reg.op = "register" => ~reg.prior_running

\* C16 as written: unregister(p.id) right after register(p) leaves the
\* registry as it was before register, whatever it held; unregister of an
\* id that is not registered returns false and changes nothing.
UnregisterAbsent ==
    (reg.op = "unregister" /\ reg.before[reg.id] = 0) =>
        /\ reg.after = reg.before
        /\ Returned(reg.by) => result[reg.by] = Ok(<<FALSE>>)

C16_RegisterUnregister ==
    /\ (reg.op = "unregister" /\ reg.undoes) => reg.after = reg.orig
    /\ UnregisterAbsent

\* C16 amended: unregister(p.id) right after register(p) leaves the registry
\* as it was before register except that nothing is registered under p.id:
\* the registry is restored exactly when p.id was not registered before.
C16_RegisterUnregisterFresh ==
    /\ (reg.op = "unregister" /\ reg.undoes) =>
          /\ reg.after = [reg.orig EXCEPT ![reg.id] = 0]
          /\ reg.orig[reg.id] = 0 => reg.after = reg.orig
          /\ Returned(reg.by) => result[reg.by] = Ok(<<TRUE>>)
    /\ UnregisterAbsent

C16_Witness ==
    /\ reg.op = "unregister" /\ reg.undoes /\ reg.orig[reg.id] = 0
    /\ reg.orig # NoChannels
    /\ Returned(reg.by)

\* C17: start() on a plugin that was started and not stopped returns an
\* error, sets no status, and creates no subprocess or listener: status()
\* is what it was before the call.
C17_DoubleStart ==
    \A p \in Procs :
        (/\ op[p] = "start_channel" /\ callee[p] # 0 /\ Latest(p) /\ Returned(p)
         /\ plugin0[p].started)
            => /\ ~result[p].ok
               /\ calls[p] = <<>>
               /\ plugin[callee[p]] = plugin0[p]

C17_Witness ==
    \E p \in Procs :
        /\ op[p] = "start_channel" /\ callee[p] # 0 /\ Latest(p) /\ Returned(p)
        /\ plugin0[p].started
        /\ channel_type(callee[p]) = "external"

\* C18: stop() on a plugin whose status is Stopped returns Ok, leaves the
\* status Stopped, creates no subprocess or listener and writes no request.
C18_DoubleStop ==
    \A p \in Procs :
        (/\ op[p] = "stop_channel" /\ callee[p] # 0 /\ Latest(p) /\ Returned(p)
         /\ plugin0[p].status = Stopped)
            => /\ result[p].ok
               /\ plugin[callee[p]].status = Stopped
               /\ plugin[callee[p]].process = plugin0[p].process
               /\ Writes(p) = {}
               /\ Count(calls[p], "spawn") = 0

C18_Witness ==
    \E p \in Procs :
        /\ op[p] = "stop_channel" /\ callee[p] # 0 /\ Latest(p) /\ Returned(p)
        /\ plugin0[p].status = Stopped
        /\ channel_type(callee[p]) = "external"
        /\ written[callee[p]] # <<>>

\* C19: when a step of the external plugin's start() fails (the spawn, the
\* initialize RPC, the start RPC), start() returns an error and the status
\* is Error afterwards.
C19_StartFailure ==
    \A p \in Procs :
        (/\ op[p] = "start_channel" /\ callee[p] # 0 /\ Latest(p) /\ Returned(p)
         /\ channel_type(callee[p]) = "external"
         /\ calls[p] # <<>> /\ ~result[p].ok)
            => plugin[callee[p]].status.kind = "Error"

\* C20: in the external plugin's start() the status is set to Starting
\* before the spawn, the start request is written only after initialize was
\* answered with success, and the status is set to Running only after both
\* initialize and start were answered with success.
C20_StartSequence ==
    \A p \in Procs :
        (op[p] = "start_channel" /\ callee[p] # 0
             /\ channel_type(callee[p]) = "external") =>
            /\ Count(calls[p], "spawn") > 0 => Before2(calls[p], "Starting", "spawn")
            /\ Count(calls[p], "write_start") > 0 =>
                  Before2(calls[p], "ok_initialize", "write_start")
            /\ Count(calls[p], "Running") > 0 =>
                  /\ Before2(calls[p], "ok_initialize", "Running")
                  /\ Before2(calls[p], "ok_start", "Running")
            /\ (Latest(p) /\ plugin[callee[p]].status = Running) =>
                  Count(calls[p], "Running") > 0 \/ plugin0[p].status = Running

C20_Witness ==
    \E p \in Procs :
        /\ op[p] = "start_channel" /\ callee[p] # 0 /\ Returned(p) /\ result[p].ok
        /\ channel_type(callee[p]) = "external"
        /\ plugin[callee[p]].status = Running

\* C21: once stop() of an external plugin has returned, its status is
\* Stopped, it has no subprocess and no stdin, its reader task is aborted and
\* its pending table is empty, whatever send and notify_processing calls are
\* in flight on the plugin (no start() is called).
OnlyInFlightSends(p) ==
    \A q \in Procs \ {p} : op[q] \in {"none", "send", "notify_processing"}

C21_StopPostcondition ==
    \A p \in Procs :
        (op[p] = "stop" /\ Returned(p) /\ OnlyInFlightSends(p)) =>
            LET pl == callee[p]
            IN /\ plugin[pl].status = Stopped
               /\ ~plugin[pl].process
               /\ reader[pl] \in {"aborted", "none"}
               /\ plugin[pl].pending = {}

\* C23: in the pending table of an external plugin no request id belongs to
\* more than one waiting call, the ids of the requests written to the
\* subprocess are strictly increasing, and every id written is below
\* next_id: no id is used twice, also after stop() and start() and after
\* sends that failed before writing.
Waiting(pl, id) == {q \in Procs : callee[q] = pl /\ rpc_id[q] = id /\ slot[q] = "waiting"}

C23_IdsNeverReused ==
    \A pl \in Plugins :
        /\ \A id \in plugin[pl].pending : Cardinality(Waiting(pl, id)) <= 1
        /\ \A i, j \in DOMAIN written[pl] : i < j => written[pl][i].id < written[pl][j].id
        /\ \A i \in DOMAIN written[pl] : written[pl][i].id < plugin[pl].next_id

\* A send failed on the stopped plugin, and the start() after it has written
\* its request to the second subprocess of the plugin.
C23_Witness ==
    \E pl \in Plugins, p \in Procs :
        /\ callee[p] = pl /\ op[p] = "send" /\ Returned(p) /\ ~result[p].ok
        /\ Writes(p) = {}
        /\ Count([i \in DOMAIN written[pl] |-> written[pl][i].method], "initialize") = 2

\* C22: when the reader reads a response line (one with a result or an
\* error) whose id is not in the pending table, no receiver gets a value, the
\* plugin state (pending table and status included) stays as it is, and the
\* reader stays running with the following lines still to be read.
UnknownResponse(pl) ==
    /\ reader[pl] = "running" /\ stdout[pl] # <<>>
    /\ Head(stdout[pl]).member \in {"result", "error"}
    /\ Head(stdout[pl]).id \notin plugin[pl].pending \cup {0}

C22_UnknownIdDropped ==
    [][\A pl \in Plugins :
          (UnknownResponse(pl) /\ handled'[pl] # handled[pl]) =>
              /\ slot' = slot
              /\ plugin'[pl] = plugin[pl]
              /\ reader'[pl] = "running"
              /\ stdout'[pl] = Tail(stdout[pl])]_vars

\* The reader has dropped a response with an unknown id while the plugin
\* was Running and has then given the next line to the call that waited
\* for it.
C22_Witness ==
    \E pl \in Plugins, p \in Procs :
        /\ Len(handled[pl]) = 2
        /\ handled[pl][1].what = "unknown_id"
        /\ handled[pl][1].line.member \in {"result", "error"}
        /\ handled[pl][2].what = "response"
        /\ callee[p] = pl /\ slot[p] = "result"
        /\ plugin[pl].status = Running

\* C24: the reader completes a pending request only with a line that has a
\* result or an error: no line with another member is handled as a response
\* and no waiting call receives a response without result and error.
C24_OnlyResultOrError ==
    /\ \A pl \in Plugins : \A i \in DOMAIN handled[pl] :
          handled[pl][i].what = "response" =>
              handled[pl][i].line.member \in {"result", "error"}
    /\ \A p \in Procs : slot[p] # "null"

\* C25: a send_message whose prompt has succeeded returns Ok with the text
\* its subscriber collected, whatever the outcomes of the metadata upsert, of
\* the pi_session_id capture and of the activity update, and its session is
\* still the entry of the key and unlocked for the next call.
PromptSucceeded(p) ==
    session_arc[p] # 0 /\ AssistantMsg(p) \in Range(messages[session_arc[p]])

IsPrefix(s, t) == Len(s) <= Len(t) /\ SubSeq(t, 1, Len(s)) = s

C25_StorageIndependent ==
    \A p \in Procs :
        (op[p] = "send" /\ pc[p] = "done" /\ PromptSucceeded(p)) =>
            /\ result[p].done /\ result[p].ok
            /\ IsPrefix(result[p].value, response_text[p])
            /\ sessions[key[p]] = session_arc[p]
            /\ mutex[session_arc[p]] # p

\* Two sends have returned Ok on the same session while the row of an
\* earlier run is exactly as the database held it: the upsert (it would have
\* set is_active), the capture (it would have set pi_session_id) and the
\* activity update (it would have raised message_count) have all failed.
C25_Witness ==
    /\ storage
    /\ rows["A"] = [present |-> TRUE, message_count |-> MaxStoredCount,
                     is_active |-> FALSE, pi_session_id |-> 0,
                     created_at |-> "earlier_run"]
    /\ \E p, q \in Procs :
          /\ p < q /\ op[p] = "send" /\ op[q] = "send"
          /\ Returned(p) /\ result[p].ok /\ Returned(q) /\ result[q].ok
          /\ session_arc[q] = session_arc[p]
          /\ Count(calls[p], "save_session") = 1
          /\ Count(calls[p], "save_pi_session_id") = 1
          /\ Count(calls[p], "update_session_activity") = 1

\* C26: the calls are made one after the other on one key.  After a
\* delete_session, has_session returns false and a send_message gets a
\* session that no earlier call has used and whose history holds no message
\* of an earlier call; a delete_session on a key that is not in the
\* map returns false and makes no storage call.
C26_DeleteThenFresh ==
    \A p \in Procs :
        /\ (p > 1 /\ op[p - 1] = "delete" /\ op[p] = "has" /\ Returned(p)) =>
               result[p].value = <<FALSE>>
        /\ (p > 1 /\ op[p - 1] = "delete" /\ op[p] = "send" /\ session_arc[p] # 0) =>
               /\ \A q \in Procs : q < p => session_arc[q] # session_arc[p]
               /\ \A m \in Range(messages[session_arc[p]]) : m.by >= p
        /\ (op[p] = "delete" /\ Returned(p) /\ (p = 1 \/ op[p - 1] = "delete")) =>
               result[p].value = <<FALSE>> /\ calls[p] = <<>>
        /\ (op[p] = "delete" /\ Returned(p) /\ result[p].value = <<FALSE>>) =>
               calls[p] = <<>>

\* A send has created the session of the key and left two messages in its
\* history, a delete_session has removed it and cleared is_active of its row,
\* and the next send has returned from another session.
C26_Witness ==
    /\ storage
    /\ op[1] = "send" /\ Returned(1) /\ result[1].ok
    /\ op[2] = "delete" /\ Returned(2) /\ result[2].value = <<TRUE>>
    /\ Count(calls[2], "delete_session") = 1
    /\ op[3] = "send" /\ Returned(3) /\ result[3].ok
    /\ Len(messages[session_arc[1]]) = 2
    /\ session_arc[3] # session_arc[1]
    /\ Len(messages[session_arc[3]]) = 2

\* C27: with storage and no failed write, whenever no call is in progress a
\* key is in the map exactly if its row is present with is_active set.
Quiescent == \A p \in Procs : pc[p] \in {"idle", "done"}

C27_MapIffActive ==
    (storage /\ Quiescent) =>
        \A k \in Keys : (sessions[k] # 0) <=> (rows[k].present /\ rows[k].is_active)

\* C28: restore_sessions creates sessions for active rows only and returns Ok
\* unless list_sessions fails; a turn of its loop that ends, with or without
\* a failure, goes on to the next row and returns Ok(count) after the last
\* one.  When it has returned Ok, count is the number of active rows, the
\* keys in the map are keys of active rows and there are as many of them as
\* creations that succeeded (each made one save_session call).
RowActive(k) == rows[k].present /\ rows[k].is_active

InMap == {k \in Keys : sessions[k] # 0}

C28_RestoreSkipsFailures ==
    [][\A p \in Procs : op[p] = "restore" =>
          /\ (todo[p] # <<>> /\ todo'[p] # todo[p]) =>
                /\ todo'[p] = Tail(todo[p])
                /\ IF todo'[p] = <<>>
                     THEN pc'[p] = "done" /\ result'[p].ok
                     ELSE pc'[p] = "create" /\ key'[p] = Head(todo'[p]).session_key
          /\ (pc'[p] = "create") => (rows'[key'[p]].present /\ rows'[key'[p]].is_active)
          /\ (pc'[p] = "done") =>
                /\ result'[p].ok \/ result'[p].err = <<"Failed to load sessions from storage">>
                /\ (result'[p].ok /\ storage) =>
                      /\ result'[p].value = <<Cardinality({k \in Keys : RowActive(k)'})>>
                      /\ \A k \in InMap' : RowActive(k)'
                      /\ Cardinality(InMap') = Count(calls'[p], "save_session")]_vars

\* restore_sessions has returned Ok(2) over two active rows: the creation for
\* the row it visited first has failed, and the session of the row it
\* visited last is in the map.
C28_Witness ==
    /\ op[1] = "restore" /\ Returned(1) /\ result[1].ok /\ result[1].value = <<2>>
    /\ \A k \in Keys : RowActive(k)
    /\ InMap = {key[1]}
    /\ Count(calls[1], "save_session") = 1

\* C29: a step of the restarted manager leaves message_count, pi_session_id
\* and created_at of every active row as they were.
C29_MetadataSurvives ==
    [][\A k \in Keys : RowActive(k) =>
          /\ rows'[k].message_count = rows[k].message_count
          /\ rows'[k].pi_session_id = rows[k].pi_session_id
          /\ rows'[k].created_at = rows[k].created_at]_vars

\* C30: the raw chunk a returned chunk was made of, the fence lines
\* split_message has seen in the raw chunks and the fence lines of the text.
RawChunks ==
    IF Len(split.text) <= split.max_len THEN <<split.text>>
    ELSE NaiveSplit(split.text, split.max_len)

FenceLinesOf(t) ==
    {trim(lines(t)[i]) : i \in {j \in DOMAIN lines(t) : starts_with(trim(lines(t)[j]), Fence)}}

SeenFences == UNION {FenceLinesOf(RawChunks[i]) : i \in DOMAIN RawChunks}

Longest(S) == Max({0} \cup {Len(f) : f \in S})

\* C30 as stated: no chunk is longer than max_len plus the longest fence line
\* plus one newline, and a chunk that is its raw chunk is not longer than
\* max_len.
C30_ChunkBound ==
    split.returned =>
        \A i \in DOMAIN split.chunks :
            /\ Len(split.chunks[i]) <=
                   split.max_len + Longest(SeenFences \cup FenceLinesOf(split.text)) + 1
            /\ (split.chunks[i] = RawChunks[i]) => Len(split.chunks[i]) <= split.max_len

\* C30, amended: there is one chunk for each raw chunk; no chunk is longer
\* than max_len plus the longest fence line seen plus one newline (the
\* reopening line) plus the closing line feed and fence, and a chunk that is
\* its raw chunk is not longer than max_len.
C30_ChunkBoundWithClose ==
    split.returned =>
        /\ Len(split.chunks) = Len(RawChunks)
        /\ \A i \in DOMAIN split.chunks :
              /\ Len(split.chunks[i]) <=
                     split.max_len + Longest(SeenFences) + 1 + Len(<<"\n">> \o Fence)
              /\ (split.chunks[i] = RawChunks[i]) => Len(split.chunks[i]) <= split.max_len

\* A chunk inside a code block has been reopened and closed and is as long
\* as the amended bound allows.
C30_Witness ==
    /\ split.returned
    /\ \E i \in DOMAIN split.chunks :
          /\ Len(RawChunks[i]) = split.max_len
          /\ Len(split.chunks[i]) =
                 split.max_len + Longest(SeenFences) + 1 + Len(<<"\n">> \o Fence)

\* C31: every returned chunk holds an even number of fences, counted from
\* the left without overlap.
RECURSIVE CountFences(_)
CountFences(t) ==
    IF Len(t) < Len(Fence) THEN 0
    ELSE IF starts_with(t, Fence)
      THEN 1 + CountFences(SubSeq(t, Len(Fence) + 1, Len(t)))
      ELSE CountFences(Tail(t))

C31_EvenFences ==
    split.returned =>
        \A i \in DOMAIN split.chunks : CountFences(split.chunks[i]) % 2 = 0

\* C32: a reopening line is a fence line with its line feed, a closing line
\* is a line feed and a fence.  The chunks rebuild the text when each chunk
\* is such lines around a piece of the text, the pieces follow one another in
\* the text, and what the text holds between two pieces and after the last
\* is line feeds only.
IsReopen(pre) ==
    \/ pre = <<>>
    \/ /\ starts_with(pre, Fence)
       /\ pre[Len(pre)] = "\n"
       /\ \A i \in 1..(Len(pre) - 1) : pre[i] # "\n"

IsClose(post) == post \in {<<>>, <<"\n">> \o Fence}

OnlyLineFeeds(t) == \A i \in DOMAIN t : t[i] = "\n"

RECURSIVE Rebuilds(_, _, _)
Rebuilds(t, cs, first) ==
    IF cs = <<>> THEN OnlyLineFeeds(t)
    ELSE LET c == Head(cs)
         IN \E k \in 0..(IF first THEN 0 ELSE Len(t)) :
               /\ OnlyLineFeeds(SubSeq(t, 1, k))
               /\ \E a \in 0..Len(c) : \E n \in 0..(Len(c) - a) :
                     /\ k + n <= Len(t)
                     /\ IsReopen(SubSeq(c, 1, a))
                     /\ IsClose(SubSeq(c, a + n + 1, Len(c)))
                     /\ SubSeq(c, a + 1, a + n) = SubSeq(t, k + 1, k + n)
                     /\ Rebuilds(SubSeq(t, k + n + 1, Len(t)), Tail(cs), FALSE)

C33_CancelReturns ==
    /\ [][poll.cancelled => poll'.requests = poll.requests]_vars
    /\ (poll.cancelled ~> poll.pc = "returned")
    /\ (poll.stop_pc = "await" ~> poll.stop_pc = "returned")

\* stop() has returned after cancelling the token while the loop was
\* forwarding a message to the inbound queue.
C33_Witness ==
    /\ poll.stop_pc = "returned"
    /\ poll.cancelled_at = "send"
    /\ poll.requests > 0

\* The names the agent's deny list and the global deny list deny, directly or
\* through a group.
Denied(t) == expand_names(t.deny \cup t.global_deny)

\* C34: no denied tool is in the result of resolve_effective_tools, and none
\* is installed in a session created for the agent.
C34_DenyWins ==
    /\ Denied(tools) \cap resolve_effective_tools(AgentPolicy(tools), AllTools) = {}
    /\ Denied(tools) \cap resolve_effective_tools(AgentPolicy(tools), GatewayTools) = {}
    /\ tools.created => Denied(tools) \cap tools.installed = {}

\* C35: every response line whose id is the id of a request written to the
\* subprocess is dispatched to the call that wrote the request: the sender
\* is in the pending table by the time the reader handles the line.
IsReplyTo(pl, l) ==
    /\ l.member \in {"result", "error"}
    /\ \E i \in DOMAIN written[pl] : written[pl][i].id = l.id

C35_ReplyDelivered ==
    \A pl \in Plugins : \A i \in DOMAIN handled[pl] :
        IsReplyTo(pl, handled[pl][i].line) => handled[pl][i].what = "response"

\* C40: every id in the pending table of a plugin is the id of a send_rpc
\* call that is still waiting for its response: a call that has ended by
\* timeout, by an error response or by being dropped has no entry left.
StillWaiting(pl, id) ==
    \E q \in Procs : callee[q] = pl /\ rpc_id[q] = id /\ pc[q] \in WaitPcs

C40_PendingOnlyWaiting ==
    \A pl \in Plugins : \A id \in plugin[pl].pending : StillWaiting(pl, id)

\* C38: an external plugin whose status is Running has its subprocess and
\* its stdin, and one whose status is Stopped has neither, under every
\* interleaving of start() and stop().
C38_StatusMatchesProcess ==
    \A pl \in Plugins :
        channel_type(pl) = "external" =>
            /\ plugin[pl].status = Running => ProcessIsSome(pl) /\ StdinIsSome(pl)
            /\ plugin[pl].status = Stopped => ~ProcessIsSome(pl) /\ ~StdinIsSome(pl)

\* C39: after a restart no session of the map holds a message of a
\* conversation that was deleted in the earlier run: every message a restored
\* session holds is one of a session that was in the map when that run ended.
C39_DeletedStaysDeleted ==
    run.n = 2 =>
        \A k \in Keys :
            sessions[k] # 0 =>
                \A m \in Range(messages[sessions[k]]) :
                    \E s \in run.live : m \in Range(messages[s])

\* C36: on the streaming path the routing task ends only after both the
\* prompt and the send_streaming task have ended, and the send_streaming
\* task returns whatever the outcome of the prompt: once the prompt has
\* returned, its receiver yields Done or reports the channel closed.
C36_StreamingEnds ==
    /\ [](\A p \in Procs : stream[p].route = "done" => stream[p].display = "returned")
    /\ \A p \in Procs :
          (stream[p].display = "running" /\ pc[p] = "done") ~> (stream[p].display = "returned")

\* The session whose lock the gateway-ops loop is waiting for (0: none).
OpsWaitsFor ==
    CASE pc[OpsProc] = "list_lock" -> sessions[Head(todo[OpsProc])]
      [] pc[OpsProc] \in {"history_lock", "lock"} -> session_arc[OpsProc]
      [] OTHER -> 0

\* C37: the gateway-ops loop never waits for the lock of a session whose
\* prompt holds it and waits for a reply of the loop, and every op a gateway
\* tool has sent during a prompt is replied to.
C37_OpsNoDeadlock ==
    /\ [](OpsWaitsFor # 0 =>
            LET holder == mutex[OpsWaitsFor]
            IN holder = 0 \/ ops.tool[holder] # "waiting")
    /\ \A p \in Procs : (ops.tool[p] = "waiting") ~> (ops.tool[p] # "waiting")

====
